---- MODULE Spec2Model ----
(***************************************************************************)
(* Roster generation pipeline of yepai-scheduler: the orchestrator         *)
(* (agents/orchestrator.py) sequences demand analysis, skill matching, the *)
(* CP-SAT scheduler (services/scheduler.py), the validator                 *)
(* (agents/validator_agent.py) and the resolver (agents/resolver_agent.py).*)
(*                                                                         *)
(* Hours are held in tenths of an hour (8.5h = 85), impact scores in       *)
(* fortieths (1.5 = 60).  A day key is the number of the day counted from  *)
(* a Monday (1 = Monday ... 6 = Saturday, 7 = Sunday, 8 = Monday ...).     *)
(***************************************************************************)
EXTENDS Integers, Sequences, FiniteSets, TLC

(* ------------------------------ bounds -------------------------------- *)

\* Largest number of employees in a request.
MaxEmployees == 4

\* Largest number of days in the day list of a request.
MaxDays == 2

(* ---------------------------- ShiftCatalog ---------------------------- *)

\* models/shift.py ShiftType, in declaration order.
ShiftType == <<"S", "1F", "2F", "3F", "SC", "M", "/">>

IsShiftType(code) == \E i \in 1..Len(ShiftType) : ShiftType[i] = code

\* models/shift.py SHIFT_DEFINITIONS; hours in tenths.
SHIFT_DEFINITIONS(code) ==
    CASE code = "S"  -> [name |-> "Day Shift", hours |-> 85, is_opening |-> TRUE,
                         is_closing |-> FALSE, covers_lunch_peak |-> TRUE,
                         covers_dinner_peak |-> FALSE]
      [] code = "1F" -> [name |-> "First Half", hours |-> 90, is_opening |-> TRUE,
                         is_closing |-> FALSE, covers_lunch_peak |-> TRUE,
                         covers_dinner_peak |-> FALSE]
      [] code = "2F" -> [name |-> "Second Half", hours |-> 90, is_opening |-> FALSE,
                         is_closing |-> TRUE, covers_lunch_peak |-> FALSE,
                         covers_dinner_peak |-> TRUE]
      [] code = "3F" -> [name |-> "Full Day", hours |-> 120, is_opening |-> FALSE,
                         is_closing |-> FALSE, covers_lunch_peak |-> TRUE,
                         covers_dinner_peak |-> TRUE]
      [] code = "SC" -> [name |-> "Shift Change", hours |-> 90, is_opening |-> FALSE,
                         is_closing |-> FALSE, covers_lunch_peak |-> TRUE,
                         covers_dinner_peak |-> TRUE]
      [] code = "M"  -> [name |-> "Meeting", hours |-> 80, is_opening |-> FALSE,
                         is_closing |-> FALSE, covers_lunch_peak |-> TRUE,
                         covers_dinner_peak |-> FALSE]
      [] OTHER       -> [name |-> "Day Off", hours |-> 0, is_opening |-> FALSE,
                         is_closing |-> FALSE, covers_lunch_peak |-> FALSE,
                         covers_dinner_peak |-> FALSE]

\* SchedulerService.__init__: every shift type but the day off.
shift_types == SelectSeq(ShiftType, LAMBDA s : s # "/")

ShiftTypeSet == {shift_types[i] : i \in 1..Len(shift_types)}

lunch_peak_shifts == {s \in ShiftTypeSet : SHIFT_DEFINITIONS(s).covers_lunch_peak}

dinner_peak_shifts == {s \in ShiftTypeSet : SHIFT_DEFINITIONS(s).covers_dinner_peak}

opening_shifts == {s \in ShiftTypeSet : SHIFT_DEFINITIONS(s).is_opening}

closing_shifts == {s \in ShiftTypeSet : SHIFT_DEFINITIONS(s).is_closing}

\* The record the scheduler writes for a shift code (station left out: no
\* validator rule and no resolver applied here reads it).
ShiftRecord(code) ==
    [shift_code |-> code,
     shift_name |-> SHIFT_DEFINITIONS(code).name,
     hours      |-> SHIFT_DEFINITIONS(code).hours]

DayOffRecord == [shift_code |-> "/", shift_name |-> "Day Off", hours |-> 0]

(* ----------------------------- Constraints ---------------------------- *)

weekend_coverage_increase_percent == 20

min_managers_always == 1

max_consecutive_days == 6

\* Constraints.get_hour_limits / Employee.get_hour_limits: (min, max) weekly hours.
get_hour_limits(employee_type) ==
    CASE employee_type = "Full-Time" -> <<35, 38>>
      [] employee_type = "Part-Time" -> <<20, 32>>
      [] OTHER                       -> <<8, 24>>

\* _is_weekend: datetime.fromisoformat(day).weekday() >= 5.
IsWeekend(day) == ((day - 1) % 7) >= 5

\* int(staff * (weekend_multiplier if is_weekend else 1.0)), with
\* weekend_multiplier = 1.0 + 20/100.0: truncation of staff * 1.2.
WeekendAdjusted(staff, day) ==
    IF IsWeekend(day)
    THEN (staff * (100 + weekend_coverage_increase_percent)) \div 100
    ELSE staff

(* ------------------------------- inputs ------------------------------- *)

NoEmployee == 0

\* StaffingRequirement.total_staff: the sum over the five station fields.
total_staff(req) ==
    req.kitchen_staff + req.counter_staff + req.mccafe_staff
        + req.dessert_station_staff + req.offline_dessert_station_staff

Requirement(k, c, m, d) ==
    [kitchen_staff |-> k, counter_staff |-> c, mccafe_staff |-> m,
     dessert_station_staff |-> d, offline_dessert_station_staff |-> 0]

\* Store payloads of a request (store.model_dump(): the requirement dicts hold
\* the station fields and no "total_staff" key).
Stores ==
    { [normal_requirements |-> Requirement(1, 1, 0, 0),
       peak_requirements   |-> Requirement(1, 1, 0, 0)],
      [normal_requirements |-> Requirement(1, 0, 0, 0),
       peak_requirements   |-> Requirement(1, 0, 0, 1)] }

\* The first day of the day lists: a Friday, so that a list of two days holds
\* a weekday and a weekend day.
FirstDay == 5

\* Day lists of a request: consecutive calendar days.
DayLists == { [i \in 1..n |-> FirstDay + i - 1] : n \in 0..MaxDays }

SeqToSet(s) == {s[i] : i \in 1..Len(s)}

\* Availability patterns of an employee over a day list: a mapping from some of
\* the day keys to a non-empty list of shift codes.
AvailabilityOf(pattern, dayList) ==
    CASE pattern = "S"    -> [d \in SeqToSet(dayList) |-> <<"S">>]
      [] pattern = "2F"   -> [d \in SeqToSet(dayList) |-> <<"2F">>]
      [] pattern = "3F"   -> [d \in SeqToSet(dayList) |-> <<"3F">>]
      [] pattern = "alt"  -> [d \in SeqToSet(dayList) |->
                                 IF d % 2 = 1 THEN <<"2F", "S">> ELSE <<"1F", "2F">>]
      [] pattern = "late" -> [d \in SeqToSet(dayList) \ {dayList[1]} |-> <<"2F">>]
      [] pattern = "off"  -> [d \in SeqToSet(dayList) |-> <<"/">>]
      [] OTHER            -> [d \in {} |-> <<>>]

\* Employee profiles a request draws its employees from.
Profiles ==
    << [employee_type |-> "Full-Time", is_manager |-> TRUE,  pattern |-> "S"],
       [employee_type |-> "Casual",    is_manager |-> FALSE, pattern |-> "alt"],
       [employee_type |-> "Casual",    is_manager |-> FALSE, pattern |-> "2F"],
       [employee_type |-> "Part-Time", is_manager |-> FALSE, pattern |-> "3F"],
       [employee_type |-> "Part-Time", is_manager |-> TRUE,  pattern |-> "late"],
       [employee_type |-> "Casual",    is_manager |-> FALSE, pattern |-> "off"] >>

\* The staff a request draws its employees from, by profile number.
Staff == <<1, 2, 2, 3, 4, 5, 6>>

\* Crews: the employees of a request, up to MaxEmployees members of the staff
\* in staff order.
Crews ==
    { [k \in 1..Cardinality(S) |->
          Staff[CHOOSE p \in S : Cardinality({q \in S : q < p}) = k - 1]] :
        S \in {T \in SUBSET (1..Len(Staff)) : Cardinality(T) <= MaxEmployees} }

\* employees_data of a request: ids are unique, here the list position.
EmployeesData(crew, dayList) ==
    [i \in 1..Len(crew) |->
        [id            |-> i,
         employee_type |-> Profiles[crew[i]].employee_type,
         is_manager    |-> Profiles[crew[i]].is_manager,
         availability  |-> IF Len(dayList) = 0
                           THEN [d \in {} |-> <<>>]
                           ELSE AvailabilityOf(Profiles[crew[i]].pattern, dayList)]]

\* Scenario D of the specification: one Part-Time employee available for 3F
\* on five days of a week of seven.
ScenarioD ==
    [store_data     |-> [normal_requirements |-> Requirement(1, 1, 0, 0),
                         peak_requirements   |-> Requirement(1, 1, 0, 0)],
     days           |-> [i \in 1..7 |-> i],
     employees_data |-> << [id |-> 1, employee_type |-> "Part-Time",
                            is_manager |-> FALSE,
                            availability |-> [d \in 1..5 |-> <<"3F">>]] >>]

\* A request of five employees over a Friday and a Saturday whose constraint
\* model has solutions that leave an employee off: the fifth employee has no
\* availability entry for the Friday.
ScenarioSpare ==
    [store_data     |-> [normal_requirements |-> Requirement(1, 1, 0, 0),
                         peak_requirements   |-> Requirement(1, 1, 0, 0)],
     days           |-> <<5, 6>>,
     employees_data |-> EmployeesData(<<1, 2, 2, 3, 5>>, <<5, 6>>)]

\* Scenario A of the specification: a Full-Time manager and four Casual crew,
\* each available for S on the one day of the list, a Monday; the store needs
\* two kitchen and two counter staff, normal and peak.
ScenarioA ==
    [store_data     |-> [normal_requirements |-> Requirement(2, 2, 0, 0),
                         peak_requirements   |-> Requirement(2, 2, 0, 0)],
     days           |-> <<1>>,
     employees_data |-> [i \in 1..5 |->
                            [id |-> i,
                             employee_type |-> IF i = 1 THEN "Full-Time" ELSE "Casual",
                             is_manager |-> i = 1,
                             availability |-> [d \in {1} |-> <<"S">>]]]]

\* models/employee.py EmployeeType: the defined employee type literals.
EmployeeType == {"Full-Time", "Part-Time", "Casual"}

\* A request with an employee whose employee_type is none of the defined
\* literals.
ScenarioUnknownType ==
    [store_data     |-> [normal_requirements |-> Requirement(1, 1, 0, 0),
                         peak_requirements   |-> Requirement(1, 1, 0, 0)],
     days           |-> <<5>>,
     employees_data |-> << [id |-> 1, employee_type |-> "Contractor",
                            is_manager |-> FALSE,
                            availability |-> [d \in {5} |-> <<"2F">>]] >>]

\* A request in which every employee, a manager included, lists only the day
\* off on both days.
ScenarioAllOff ==
    [store_data     |-> [normal_requirements |-> Requirement(1, 0, 0, 0),
                         peak_requirements   |-> Requirement(1, 0, 0, 1)],
     days           |-> <<5, 6>>,
     employees_data |-> [i \in 1..3 |->
                            [id |-> i,
                             employee_type |-> IF i = 1 THEN "Full-Time" ELSE "Casual",
                             is_manager |-> i = 1,
                             availability |-> [d \in {5, 6} |-> <<"/">>]]]]

\* A request with an employee whose lists start with a code that is no working
\* shift of the catalog ("/", and the unknown code "4F") and go on with one
\* that is.
ScenarioSecondChoice ==
    [store_data     |-> [normal_requirements |-> Requirement(1, 1, 0, 0),
                         peak_requirements   |-> Requirement(1, 1, 0, 0)],
     days           |-> <<5, 6>>,
     employees_data |-> << [id |-> 1, employee_type |-> "Casual",
                            is_manager |-> FALSE,
                            availability |-> (5 :> <<"/", "1F">>) @@ (6 :> <<"4F", "2F">>)] >>]

\* The requests the pipeline is run on.
Requests ==
    { [store_data |-> st, days |-> dl, employees_data |-> EmployeesData(crew, dl)] :
        st \in Stores, dl \in DayLists, crew \in Crews }
    \cup {ScenarioA, ScenarioD, ScenarioSpare, ScenarioUnknownType, ScenarioAllOff,
          ScenarioSecondChoice}

(* ------------------------------- state -------------------------------- *)

VARIABLES
    pc,                 \* position in orchestrate_roster_generation
    workflow_log,       \* the stages logged so far
    store_data,         \* request: store
    employees_data,     \* request: employees
    days,               \* request: day list
    solver_status,      \* roster_result["status"]: optimal, feasible or heuristic
    roster_result,      \* roster_result["roster"]: the scheduler's list of entries
    shifts_heap,        \* the "shifts" dict objects the entries refer to
    validation,         \* initial validation
    resolution_summary, \* the resolver's result, None when it was not run
    resolved_roster,    \* the roster handed to the final validation
    final_validation,
    peak_coverage,      \* roster_result["peak_coverage"]
    status,             \* status of the response
    weekly_hours,       \* Constraint 3 applied to one employee's shifts, None in a pipeline run
    meets_weekend_target \* roster_result["peak_coverage"]["meets_weekend_target"]

vars == <<pc, workflow_log, store_data, employees_data, days, solver_status,
          roster_result, shifts_heap, validation, resolution_summary,
          resolved_roster, final_validation, peak_coverage, status, weekly_hours, meets_weekend_target>>

\* None, for the variables that hold a dict once they are set
None == [none |-> TRUE]

Init ==
    /\ pc = "init"
    /\ workflow_log = <<>>
    /\ \E request \in Requests :
          /\ store_data = request.store_data
          /\ days = request.days
          /\ employees_data = request.employees_data
    /\ solver_status = ""
    /\ roster_result = <<>>
    /\ shifts_heap = <<>>
    /\ validation = None
    /\ resolution_summary = None
    /\ resolved_roster = <<>>
    /\ final_validation = None
    /\ peak_coverage = <<>>
    /\ status = ""
    /\ weekly_hours = None
    /\ meets_weekend_target = None


(* ------------------- SchedulerService: constraint model ---------------- *)

\* _convert_to_employees: the Employee models the scheduler is built from.
ConvertEmployeeType(t) ==
    CASE t = "Full-Time" -> "Full-Time"
      [] t = "Part-Time" -> "Part-Time"
      [] OTHER           -> "Casual"

employees ==
    [i \in 1..Len(employees_data) |->
        [id            |-> employees_data[i].id,
         employee_type |-> ConvertEmployeeType(employees_data[i].employee_type),
         is_manager    |-> employees_data[i].is_manager,
         availability  |-> employees_data[i].availability]]

\* e.availability.get(d, [])
AvailabilityGet(availability, d) ==
    IF d \in DOMAIN availability THEN availability[d] ELSE <<>>

\* A variant of Constraint 2 that reads a day without available codes as a day
\* on which every shift is allowed.
AllowedCodesNoDayOff(emp, d) ==
    LET available_codes == AvailabilityGet(emp.availability, d)
    IN  IF Len(available_codes) = 0
        THEN ShiftTypeSet
        ELSE {s \in ShiftTypeSet : s \in SeqToSet(available_codes)}

\* Constraint 2: the shift codes of (e, d) whose variable is not forced to 0.
AllowedCodes(emp, d) ==
    LET available_codes == AvailabilityGet(emp.availability, d)
    IN  IF Len(available_codes) = 0
        THEN {}
        ELSE {s \in ShiftTypeSet : s \in SeqToSet(available_codes)}

\* An assignment is a sequence over the day positions of columns; a column
\* gives each employee (by list position) the shift code whose variable is 1,
\* or "/" when all of the employee's variables of that day are 0
\* (Constraint 1, AddAtMostOne).
RECURSIVE Columns(_, _)
Columns(k, d) ==
    IF k = 0 THEN {<<>>}
    ELSE {Append(c, s) : c \in Columns(k - 1, d),
                         s \in AllowedCodes(employees[k], d) \cup {"/"}}

CountIn(col, codes) == Cardinality({e \in 1..Len(col) : col[e] \in codes})

\* Constraint 5: lunch peak coverage of a day.
LunchPeakOK(col, d) ==
    CountIn(col, lunch_peak_shifts)
        >= WeekendAdjusted(total_staff(store_data.peak_requirements), d)

\* Constraint 6: dinner peak coverage of a day.
DinnerPeakOK(col, d) ==
    CountIn(col, dinner_peak_shifts)
        >= WeekendAdjusted(total_staff(store_data.peak_requirements), d)

Max(a, b) == IF a >= b THEN a ELSE b

\* max(2, int(normal_min_staff * 0.3))
OpeningMinStaff == Max(2, (total_staff(store_data.normal_requirements) * 3) \div 10)

\* Constraints 7 and 8: opening and closing coverage of a day.
OpeningOK(col) == CountIn(col, opening_shifts) >= OpeningMinStaff

ClosingOK(col) == CountIn(col, closing_shifts) >= OpeningMinStaff

\* Constraint 9: manager coverage, only when the request has a manager.
ManagerOK(col) ==
    LET managers == {e \in 1..Len(employees) : employees[e].is_manager}
    IN  managers # {} =>
            Cardinality({e \in managers : col[e] # "/"}) >= min_managers_always

DayColumns(d) ==
    {col \in Columns(Len(employees), d) :
        /\ LunchPeakOK(col, d)
        /\ DinnerPeakOK(col, d)
        /\ OpeningOK(col)
        /\ ClosingOK(col)
        /\ ManagerOK(col)}

\* A constraint model without Constraint 4.
MinRestIgnored(a) == TRUE

\* A Constraint 4 that keeps the day shift, but not the first half, from
\* following a closing shift.
MinRestDayShiftOnly(a) ==
    \A e \in 1..Len(employees) : \A i \in 1..(Len(a) - 1) :
        ~(SHIFT_DEFINITIONS(a[i][e]).is_closing /\ a[i + 1][e] = "S")

\* Constraint 4: no closing shift followed by an opening shift on the next
\* day of the list.
MinRestOK(a) ==
    \A e \in 1..Len(employees) : \A i \in 1..(Len(a) - 1) :
        ~(SHIFT_DEFINITIONS(a[i][e]).is_closing
            /\ SHIFT_DEFINITIONS(a[i + 1][e]).is_opening)

RECURSIVE SumHours(_, _, _)
SumHours(a, e, i) ==
    IF i = 0 THEN 0 ELSE SumHours(a, e, i - 1) + SHIFT_DEFINITIONS(a[i][e]).hours

\* int(max_hours * 10 * week_multiplier * 1.1), week_multiplier = max(1, len(days) // 7)
WeeklyHoursBound(employee_type) ==
    LET week_multiplier == Max(1, Len(days) \div 7)
    IN  (get_hour_limits(employee_type)[2] * 10 * week_multiplier * 11) \div 10

\* Constraint 3: total hours (in tenths) within the buffered maximum.
WeeklyHoursOK(a) ==
    \A e \in 1..Len(employees) :
        SumHours(a, e, Len(a)) <= WeeklyHoursBound(employees[e].employee_type)

RECURSIVE Assignments(_)
Assignments(i) ==
    IF i = 0 THEN {<<>>}
    ELSE {Append(p[1], p[2]) :
            p \in {q \in Assignments(i - 1) \X DayColumns(days[i]) :
                        MinRestOK(Append(q[1], q[2]))}}

\* The assignments that satisfy every constraint of the model.
Solutions == {a \in Assignments(Len(days)) : WeeklyHoursOK(a)}

RECURSIVE ObjectiveUpTo(_, _, _)
ObjectiveUpTo(a, i, e) ==
    IF i = 0 THEN 0
    ELSE IF e = 0 THEN ObjectiveUpTo(a, i - 1, Len(employees))
    ELSE LET s == a[i][e]
             def == SHIFT_DEFINITIONS(s)
             term == IF s = "/" THEN 0
                     ELSE def.hours
                          + (IF def.covers_lunch_peak THEN 5 ELSE 0)
                          + (IF def.covers_dinner_peak THEN 5 ELSE 0)
                          + (IF IsWeekend(days[i]) THEN 3 ELSE 0)
         IN  term + ObjectiveUpTo(a, i, e - 1)

\* model.Maximize(sum(objective_terms))
Objective(a) == ObjectiveUpTo(a, Len(a), Len(employees))

\* solver.Solve: OPTIMAL with a maximal solution, FEASIBLE with any solution
\* (the time limit ended the search), INFEASIBLE when there is none, UNKNOWN
\* when the time limit ended the search before any solution was found.
SolverOutcomes ==
    LET sols   == Solutions
        values == {Objective(a) : a \in sols}
        best   == CHOOSE v \in values : \A w \in values : w <= v
    IN  {[status |-> "FEASIBLE", assignment |-> a] : a \in sols}
        \cup {[status |-> "OPTIMAL", assignment |-> a] :
                a \in {b \in sols : Objective(b) = best}}
        \cup (IF sols = {} THEN {[status |-> "INFEASIBLE", assignment |-> <<>>]} ELSE {})
        \cup {[status |-> "UNKNOWN", assignment |-> <<>>]}


(* ---------------- SchedulerService: decode, fallback, metrics ---------- *)

\* Position of a day key in the day list.
DayIndex(d) == CHOOSE i \in 1..Len(days) : days[i] = d

\* A decode that writes a record only for a day with an assigned shift.
DecodeShiftsAssignedOnly(a, e) ==
    [d \in {x \in SeqToSet(days) : a[DayIndex(x)][e] # "/"} |->
        ShiftRecord(a[DayIndex(d)][e])]

\* The "shifts" dict built from a solution for employee e: the record of the
\* shift type whose variable is 1, the day-off record when none is.
DecodeShifts(a, e) ==
    [d \in SeqToSet(days) |->
        IF a[DayIndex(d)][e] \in ShiftTypeSet
        THEN ShiftRecord(a[DayIndex(d)][e])
        ELSE DayOffRecord]

\* A fallback that puts an employee on the Day Shift when the first listed
\* code of the day is no shift type.
FallbackShiftsDayShift(emp) ==
    [d \in SeqToSet(days) |->
        LET available == AvailabilityGet(emp.availability, d)
        IN  IF Len(available) > 0 /\ available[1] \in ShiftTypeSet
            THEN ShiftRecord(available[1])
            ELSE ShiftRecord("S")]

\* The "shifts" dict of the fallback roster: the first listed code of the day
\* when it is a shift type, the day off otherwise.
FallbackShifts(emp) ==
    [d \in SeqToSet(days) |->
        LET available == AvailabilityGet(emp.availability, d)
        IN  IF Len(available) > 0 /\ available[1] \in ShiftTypeSet
            THEN ShiftRecord(available[1])
            ELSE DayOffRecord]

RECURSIVE SumOver(_, _)
SumOver(f, S) ==
    IF S = {} THEN 0
    ELSE LET x == CHOOSE y \in S : TRUE
         IN  f[x] + SumOver(f, S \ {x})

\* total_hours as the scheduler accumulates it while writing the records.
AccumulatedHours(shifts) ==
    SumOver([d \in DOMAIN shifts |-> SHIFT_DEFINITIONS(shifts[d].shift_code).hours],
            DOMAIN shifts)

\* One roster entry; "shifts" is a reference into the heap of shifts dicts.
ScheduleEntry(emp, ref, shifts) ==
    [employee_id   |-> emp.id,
     employee_type |-> emp.employee_type,
     is_manager    |-> emp.is_manager,
     shifts        |-> ref,
     total_hours   |-> AccumulatedHours(shifts)]

\* emp_schedule.get("shifts", {}).get(d, {}).get("shift_code", "/")
ShiftCodeGet(shifts, d) ==
    IF d \in DOMAIN shifts THEN shifts[d].shift_code ELSE "/"

\* shift_info.get("hours", 0.0)
HoursGet(shifts, d) ==
    IF d \in DOMAIN shifts THEN shifts[d].hours ELSE 0

\* Number of roster entries whose shift code of day d is in codes.
CountShifts(roster, heap, d, codes) ==
    Cardinality({r \in 1..Len(roster) :
                    ShiftCodeGet(heap[roster[r].shifts], d) \in codes})

\* _calculate_peak_coverage: per-day counts against the required headcount.
CalculatePeakCoverage(roster, heap) ==
    [d \in SeqToSet(days) |->
        LET required == WeekendAdjusted(total_staff(store_data.peak_requirements), d)
            lunch    == CountShifts(roster, heap, d, lunch_peak_shifts)
            dinner   == CountShifts(roster, heap, d, dinner_peak_shifts)
        IN  [lunch_peak  |-> [count |-> lunch, required |-> required,
                              met |-> lunch >= required],
             dinner_peak |-> [count |-> dinner, required |-> required,
                              met |-> dinner >= required],
             opening     |-> [count |-> CountShifts(roster, heap, d, opening_shifts),
                              required |-> 2],
             closing     |-> [count |-> CountShifts(roster, heap, d, closing_shifts),
                              required |-> 2]]]

\* weekend_vs_weekday after the first i days of the loop: the lunch and dinner
\* counts added up, weekend days and weekdays apart, and the days of each kind.
RECURSIVE WeekendVsWeekday(_, _, _)
WeekendVsWeekday(roster, heap, i) ==
    IF i = 0
    THEN [weekend |-> 0, weekday |-> 0, weekend_count |-> 0, weekday_count |-> 0]
    ELSE LET st    == WeekendVsWeekday(roster, heap, i - 1)
             count == CountShifts(roster, heap, days[i], lunch_peak_shifts)
                      + CountShifts(roster, heap, days[i], dinner_peak_shifts)
         IN  IF IsWeekend(days[i])
             THEN [st EXCEPT !.weekend = @ + count, !.weekend_count = @ + 1]
             ELSE [st EXCEPT !.weekday = @ + count, !.weekday_count = @ + 1]

\* A weekend target met when the weekend average reaches 0.9 * 1.2 times the
\* weekday average.
MeetsWeekendTargetOfAverage(t) ==
    IF t.weekend_count = 0 THEN t.weekday = 0
    ELSE IF t.weekday_count = 0 THEN TRUE
    ELSE 100 * t.weekend * t.weekday_count >= 108 * t.weekday * t.weekend_count

\* meets_weekend_target: weekend_increase_pct >= 20 * 0.9, where the
\* percentage is ((avg_weekend / avg_weekday) - 1) * 100 when the weekday
\* average is positive and 0 when it is not; an average over no day is 0.
MeetsWeekendTarget(t) ==
    IF t.weekday_count > 0 /\ t.weekday > 0
    THEN IF t.weekend_count > 0
         THEN 100 * t.weekend * t.weekday_count
                >= (100 + (weekend_coverage_increase_percent * 9) \div 10)
                   * t.weekday * t.weekend_count
         ELSE FALSE
    ELSE FALSE

\* generate_roster after the solve: the roster, the shifts dicts it refers to
\* and the coverage metrics.
GenerateRoster(outcome) ==
    LET solved == outcome.status \in {"OPTIMAL", "FEASIBLE"}
        heap   == [e \in 1..Len(employees) |->
                      IF solved THEN DecodeShifts(outcome.assignment, e)
                      ELSE FallbackShifts(employees[e])]
        roster == [e \in 1..Len(employees) |-> ScheduleEntry(employees[e], e, heap[e])]
    IN  [status |-> CASE outcome.status = "OPTIMAL"  -> "optimal"
                      [] outcome.status = "FEASIBLE" -> "feasible"
                      [] OTHER                       -> "heuristic",
         roster |-> roster,
         heap   |-> heap,
         peak_coverage |-> CalculatePeakCoverage(roster, heap),
         meets_weekend_target |-> MeetsWeekendTarget(WeekendVsWeekday(roster, heap, Len(days)))]

(* --------------------------- ValidatorAgent --------------------------- *)

Conflict(type, severity, employee_id, dayList, period, hours) ==
    [type |-> type, severity |-> severity, employee_id |-> employee_id,
     days |-> dayList, period |-> period, total_hours |-> hours]

\* A rest-period check that takes the day shift for the only opening shift.
CheckRestPeriodDayShiftOnly(prev_shift, curr_shift) ==
    prev_shift \in {"2F"} /\ curr_shift \in {"S"}

\* _check_rest_period
CheckRestPeriod(prev_shift, curr_shift) ==
    prev_shift \in {"2F"} /\ curr_shift \in {"S", "1F"}

\* The loop over the days for one employee: the running totals and the
\* conflicts appended after the first i days.
RECURSIVE ScanDays(_, _, _)
ScanDays(entry, shifts, i) ==
    IF i = 0
    THEN [total_hours |-> 0, prev_shift |-> "", prev_day |-> 0,
          consecutive_work_days |-> 0, conflicts |-> <<>>]
    ELSE LET st         == ScanDays(entry, shifts, i - 1)
             day        == days[i]
             shift_code == ShiftCodeGet(shifts, day)
             hours      == HoursGet(shifts, day)
             working    == shift_code # "/"
             consecutive == IF working THEN st.consecutive_work_days + 1 ELSE 0
             rest == IF working /\ st.prev_shift # "" /\ st.prev_shift # "/"
                        /\ CheckRestPeriod(st.prev_shift, shift_code)
                     THEN <<Conflict("rest_period_violation", "critical",
                                     entry.employee_id, <<st.prev_day, day>>, "", 0)>>
                     ELSE <<>>
             labor == IF consecutive > max_consecutive_days
                      THEN <<Conflict("labor_law_violation", "high",
                                      entry.employee_id, <<day>>, "", 0)>>
                      ELSE <<>>
         IN  [total_hours |-> IF working THEN st.total_hours + hours ELSE st.total_hours,
              prev_shift  |-> shift_code,
              prev_day    |-> day,
              consecutive_work_days |-> consecutive,
              conflicts   |-> st.conflicts \o rest \o labor]

\* total_hours as the validator computes it for a roster entry.
ValidatedHours(entry, heap) == ScanDays(entry, heap[entry.shifts], Len(days)).total_hours

\* total_hours > max_hours * weeks with weeks = len(days) / 7
MaxHoursExceeded(employee_type, total) ==
    total * 7 > get_hour_limits(employee_type)[2] * 10 * Len(days)

\* total_hours < min_hours * weeks
MinHoursNotMet(employee_type, total) ==
    total * 7 < get_hour_limits(employee_type)[1] * 10 * Len(days)

\* The conflicts and warnings of one employee's schedule.
EmployeeFindings(entry, heap) ==
    LET st == ScanDays(entry, heap[entry.shifts], Len(days))
    IN  [conflicts |->
            st.conflicts \o
            (IF MaxHoursExceeded(entry.employee_type, st.total_hours)
             THEN <<Conflict("max_hours_exceeded", "high", entry.employee_id,
                             <<>>, "", st.total_hours)>>
             ELSE <<>>),
         warnings |->
            IF MinHoursNotMet(entry.employee_type, st.total_hours)
            THEN <<Conflict("min_hours_not_met", "medium", entry.employee_id,
                            <<>>, "", st.total_hours)>>
            ELSE <<>>]

RECURSIVE EmployeesFindings(_, _, _)
EmployeesFindings(roster, heap, k) ==
    IF k = 0 THEN [conflicts |-> <<>>, warnings |-> <<>>]
    ELSE LET before == EmployeesFindings(roster, heap, k - 1)
             this   == EmployeeFindings(roster[k], heap)
         IN  [conflicts |-> before.conflicts \o this.conflicts,
              warnings  |-> before.warnings \o this.warnings]

\* store.get("normal_requirements", {}).get("total_staff", 10)
ValidatorMinStaff(store) ==
    IF "total_staff" \in DOMAIN store.normal_requirements
    THEN store.normal_requirements.total_staff
    ELSE 10

\* kitchen_staff + counter_staff + mccafe_staff of the peak requirements
ValidatorPeakMinStaff(store) ==
    store.peak_requirements.kitchen_staff + store.peak_requirements.counter_staff
        + store.peak_requirements.mccafe_staff

\* Daily staffing checks that ask for a manager only when the roster has one
\* (as Constraint 9 of the scheduler does).
DayConflictsManagerIfAny(roster, heap, store, day) ==
    LET staff_count   == Cardinality({r \in 1..Len(roster) :
                              ShiftCodeGet(heap[roster[r].shifts], day) # "/"})
        manager_count == Cardinality({r \in 1..Len(roster) :
                              roster[r].is_manager
                              /\ ShiftCodeGet(heap[roster[r].shifts], day) # "/"})
        lunch_peak_count  == CountShifts(roster, heap, day, lunch_peak_shifts)
        dinner_peak_count == CountShifts(roster, heap, day, dinner_peak_shifts)
        required_peak_staff == WeekendAdjusted(ValidatorPeakMinStaff(store), day)
    IN  (IF staff_count < ValidatorMinStaff(store)
         THEN <<Conflict("understaffed", "high", NoEmployee, <<day>>, "", 0)>>
         ELSE <<>>)
        \o (IF (\E r \in 1..Len(roster) : roster[r].is_manager)
                /\ manager_count < min_managers_always
            THEN <<Conflict("no_manager", "critical", NoEmployee, <<day>>, "", 0)>>
            ELSE <<>>)
        \o (IF lunch_peak_count < required_peak_staff
            THEN <<Conflict("peak_understaffed", "high", NoEmployee, <<day>>,
                            "lunch_peak", 0)>>
            ELSE <<>>)
        \o (IF dinner_peak_count < required_peak_staff
            THEN <<Conflict("peak_understaffed", "high", NoEmployee, <<day>>,
                            "dinner_peak", 0)>>
            ELSE <<>>)

\* The daily staffing checks of one day.
DayConflicts(roster, heap, store, day) ==
    LET staff_count   == Cardinality({r \in 1..Len(roster) :
                              ShiftCodeGet(heap[roster[r].shifts], day) # "/"})
        manager_count == Cardinality({r \in 1..Len(roster) :
                              roster[r].is_manager
                              /\ ShiftCodeGet(heap[roster[r].shifts], day) # "/"})
        lunch_peak_count  == CountShifts(roster, heap, day, lunch_peak_shifts)
        dinner_peak_count == CountShifts(roster, heap, day, dinner_peak_shifts)
        required_peak_staff == WeekendAdjusted(ValidatorPeakMinStaff(store), day)
    IN  (IF staff_count < ValidatorMinStaff(store)
         THEN <<Conflict("understaffed", "high", NoEmployee, <<day>>, "", 0)>>
         ELSE <<>>)
        \o (IF manager_count < min_managers_always
            THEN <<Conflict("no_manager", "critical", NoEmployee, <<day>>, "", 0)>>
            ELSE <<>>)
        \o (IF lunch_peak_count < required_peak_staff
            THEN <<Conflict("peak_understaffed", "high", NoEmployee, <<day>>,
                            "lunch_peak", 0)>>
            ELSE <<>>)
        \o (IF dinner_peak_count < required_peak_staff
            THEN <<Conflict("peak_understaffed", "high", NoEmployee, <<day>>,
                            "dinner_peak", 0)>>
            ELSE <<>>)

RECURSIVE DaysConflicts(_, _, _, _)
DaysConflicts(roster, heap, store, i) ==
    IF i = 0 THEN <<>>
    ELSE DaysConflicts(roster, heap, store, i - 1)
            \o DayConflicts(roster, heap, store, days[i])

\* A validator for which a warning makes the roster invalid.
ValidateRosterWarningsCount(roster, heap, store) ==
    LET emp       == EmployeesFindings(roster, heap, Len(roster))
        conflicts == emp.conflicts \o DaysConflicts(roster, heap, store, Len(days))
        hard      == Len(SelectSeq(conflicts,
                                   LAMBDA c : c.severity \in {"critical", "high"}))
    IN  [is_valid  |-> hard = 0 /\ Len(emp.warnings) = 0,
         conflicts |-> conflicts,
         warnings  |-> emp.warnings,
         total_conflicts |-> Len(conflicts),
         total_warnings  |-> Len(emp.warnings),
         hard_constraint_violations |-> hard]

\* validate_roster(roster, days, store)
ValidateRoster(roster, heap, store) ==
    LET emp       == EmployeesFindings(roster, heap, Len(roster))
        conflicts == emp.conflicts \o DaysConflicts(roster, heap, store, Len(days))
        hard      == Len(SelectSeq(conflicts,
                                   LAMBDA c : c.severity \in {"critical", "high"}))
    IN  [is_valid  |-> hard = 0,
         conflicts |-> conflicts,
         warnings  |-> emp.warnings,
         total_conflicts |-> Len(conflicts),
         total_warnings  |-> Len(emp.warnings),
         hard_constraint_violations |-> hard]


(* ---------------------------- ResolverAgent --------------------------- *)

\* sorted(..., key=...): a stable ascending sort of <<key, item>> pairs. The
\* pair at position i goes after the pairs of smaller key and after the
\* earlier pairs of equal key.
StableSort(pairs) ==
    LET n == Len(pairs)
        Position(i) ==
            Cardinality({j \in 1..n : \/ pairs[j][1] < pairs[i][1]
                                      \/ pairs[j][1] = pairs[i][1] /\ j < i}) + 1
    IN  [k \in 1..n |-> pairs[CHOOSE i \in 1..n : Position(i) = k][2]]

\* severity_order.get(c.get("severity", "low"), 4)
SeverityRank(severity) ==
    CASE severity = "critical" -> 0
      [] severity = "high"     -> 1
      [] severity = "medium"   -> 2
      [] severity = "low"      -> 3
      [] OTHER                 -> 4

\* A resolver that takes the conflicts in the order they were given.
SortByInputOrder(conflicts) == conflicts

SortBySeverity(conflicts) ==
    StableSort([i \in 1..Len(conflicts) |->
                    <<SeverityRank(conflicts[i].severity), conflicts[i]>>])

Change(employee_id, day, new_value) ==
    [employee_id |-> employee_id, day |-> day, field |-> "shift_code",
     new_value |-> new_value]

Option(description, impact_score, changes) ==
    [description |-> description, impact_score |-> impact_score, changes |-> changes]

\* next((r for r in roster if r.get("employee_id") == emp_id), None): the
\* position of the entry, 0 for None.
FindSchedule(roster, emp_id) ==
    IF \E r \in 1..Len(roster) : roster[r].employee_id = emp_id
    THEN CHOOSE r \in 1..Len(roster) :
            /\ roster[r].employee_id = emp_id
            /\ \A q \in 1..(r - 1) : roster[q].employee_id # emp_id
    ELSE 0

\* _resolve_rest_period_violation
ResolveRestPeriodViolation(conflict) ==
    IF Len(conflict.days) >= 2
    THEN << Option("change first day to 1F", 80,
                   <<Change(conflict.employee_id, conflict.days[1], "1F")>>),
            Option("change second day to 2F", 80,
                   <<Change(conflict.employee_id, conflict.days[2], "2F")>>),
            Option("day off on second day", 160,
                   <<Change(conflict.employee_id, conflict.days[2], "/")>>) >>
    ELSE <<>>

\* The days of a shifts dict in insertion order (the order of the day list).
ShiftItems(shifts) == SelectSeq(days, LAMBDA d : d \in DOMAIN shifts)

RECURSIVE MaxHoursOptions(_, _, _, _)
MaxHoursOptions(emp_id, shifts, top, i) ==
    IF i = 0 THEN <<>>
    ELSE LET day   == top[i]
             hours == shifts[day].hours
         IN  MaxHoursOptions(emp_id, shifts, top, i - 1)
             \o <<Option("remove shift", 2 * hours, <<Change(emp_id, day, "/")>>)>>
             \o (IF shifts[day].shift_code \in {"3F"}
                 THEN <<Option("reduce to 1F", hours, <<Change(emp_id, day, "1F")>>)>>
                 ELSE <<>>)

\* _resolve_max_hours_exceeded: the three longest shifts (by the hours field),
\* each with a removal (hours / 2) and, for 3F, a reduction to 1F (hours / 4).
ResolveMaxHoursExceeded(conflict, roster, heap) ==
    LET r == FindSchedule(roster, conflict.employee_id)
    IN  IF r = 0 THEN <<>>
        ELSE LET shifts  == heap[roster[r].shifts]
                 worked  == SelectSeq(ShiftItems(shifts), LAMBDA d : shifts[d].hours > 0)
                 ordered == StableSort([i \in 1..Len(worked) |->
                                            <<0 - shifts[worked[i]].hours, worked[i]>>])
                 top     == SubSeq(ordered, 1, IF Len(ordered) < 3 THEN Len(ordered) ELSE 3)
             IN  MaxHoursOptions(conflict.employee_id, shifts, top, Len(top))

\* _resolve_min_hours_not_met: a Day Shift on every day off.
ResolveMinHoursNotMet(conflict, roster, heap) ==
    LET r == FindSchedule(roster, conflict.employee_id)
    IN  IF r = 0 THEN <<>>
        ELSE LET shifts == heap[roster[r].shifts]
                 off    == SelectSeq(ShiftItems(shifts),
                                     LAMBDA d : shifts[d].shift_code = "/")
             IN  [i \in 1..Len(off) |->
                    Option("add day shift", 40,
                           <<Change(conflict.employee_id, off[i], "S")>>)]

\* emp_schedule.get("shifts", {}).get(day, {}).get("shift_code") == "/"
HasDayOff(roster, heap, emp_id, day) ==
    LET r == FindSchedule(roster, emp_id)
    IN  /\ r # 0
        /\ day \in DOMAIN heap[roster[r].shifts]
        /\ heap[roster[r].shifts][day].shift_code = "/"

RECURSIVE UnderstaffedOptions(_, _, _, _, _)
UnderstaffedOptions(roster, heap, emps, day, k) ==
    IF k = 0 THEN <<>>
    ELSE UnderstaffedOptions(roster, heap, emps, day, k - 1)
         \o (IF /\ HasDayOff(roster, heap, emps[k].id, day)
                /\ (day \in DOMAIN emps[k].availability
                        \/ DOMAIN emps[k].availability = {})
             THEN <<Option("add to work", 60, <<Change(emps[k].id, day, "S")>>)>>
             ELSE <<>>)

RECURSIVE NoManagerOptions(_, _, _, _, _)
NoManagerOptions(roster, heap, emps, day, k) ==
    IF k = 0 THEN <<>>
    ELSE NoManagerOptions(roster, heap, emps, day, k - 1)
         \o (IF emps[k].is_manager /\ HasDayOff(roster, heap, emps[k].id, day)
             THEN <<Option("add manager", 40, <<Change(emps[k].id, day, "S")>>)>>
             ELSE <<>>)

RECURSIVE ConcatOverDays(_, _, _, _, _, _)
ConcatOverDays(kind, roster, heap, emps, dayList, i) ==
    IF i = 0 THEN <<>>
    ELSE ConcatOverDays(kind, roster, heap, emps, dayList, i - 1)
         \o (IF kind = "understaffed"
             THEN UnderstaffedOptions(roster, heap, emps, dayList[i], Len(emps))
             ELSE NoManagerOptions(roster, heap, emps, dayList[i], Len(emps)))

\* _resolve_understaffed
ResolveUnderstaffed(conflict, roster, heap, emps) ==
    ConcatOverDays("understaffed", roster, heap, emps, conflict.days, Len(conflict.days))

\* _resolve_no_manager
ResolveNoManager(conflict, roster, heap, emps) ==
    ConcatOverDays("no_manager", roster, heap, emps, conflict.days, Len(conflict.days))

\* emp.get("primary_station", ""), emp.get("certified_stations", [])
QualifiedFor(emp, station) ==
    \/ "primary_station" \in DOMAIN emp /\ emp.primary_station = station
    \/ "certified_stations" \in DOMAIN emp /\ station \in SeqToSet(emp.certified_stations)

\* emp_schedule.get("shifts", {}).get(day, {}).get("station"), "" for None
StationGet(shifts, day) ==
    IF day \in DOMAIN shifts /\ "station" \in DOMAIN shifts[day]
    THEN shifts[day].station
    ELSE ""

\* The employees (by position) _resolve_skill_mismatch makes an option for:
\* qualified for the station, with a roster entry, not on the station that day.
SkillMismatchCandidates(conflict, roster, heap, emps) ==
    SelectSeq([k \in 1..Len(emps) |-> k],
              LAMBDA k :
                  /\ QualifiedFor(emps[k], conflict.station)
                  /\ FindSchedule(roster, emps[k].id) # 0
                  /\ StationGet(heap[roster[FindSchedule(roster, emps[k].id)].shifts],
                                conflict.day) # conflict.station)

SkillMismatchOptions(conflict, emps, candidates) ==
    [i \in 1..Len(candidates) |->
        Option("reassign to station", 80,
               <<[employee_id |-> emps[candidates[i]].id, day |-> conflict.day,
                  field |-> "station", new_value |-> conflict.station]>>)]

\* _resolve_skill_mismatch (the validator emits no such conflict; a caller of
\* resolve_conflicts can pass one)
ResolveSkillMismatch(conflict, roster, heap, emps) ==
    SkillMismatchOptions(conflict, emps,
                         SkillMismatchCandidates(conflict, roster, heap, emps))

\* suggest_resolutions: the options of the conflict's kind.
ResolutionOptions(conflict, roster, heap, emps) ==
    CASE conflict.type = "rest_period_violation" ->
            ResolveRestPeriodViolation(conflict)
      [] conflict.type = "max_hours_exceeded" ->
            ResolveMaxHoursExceeded(conflict, roster, heap)
      [] conflict.type = "min_hours_not_met" ->
            ResolveMinHoursNotMet(conflict, roster, heap)
      [] conflict.type = "understaffed" ->
            ResolveUnderstaffed(conflict, roster, heap, emps)
      [] conflict.type = "no_manager" ->
            ResolveNoManager(conflict, roster, heap, emps)
      [] conflict.type = "skill_mismatch" ->
            ResolveSkillMismatch(conflict, roster, heap, emps)
      [] OTHER ->
            <<Option("manual review required", 400, <<>>)>>

\* options.sort(key=lambda o: o.get("impact_score", 10))
SortByImpact(options) ==
    StableSort([i \in 1..Len(options) |-> <<options[i].impact_score, options[i]>>])

\* options[:5]
TopFive(options) == SubSeq(options, 1, IF Len(options) < 5 THEN Len(options) ELSE 5)

\* suggest_resolutions: the options sorted by impact score (stable), the first
\* five kept.
SuggestResolutions(conflict, roster, heap, emps) ==
    TopFive(SortByImpact(ResolutionOptions(conflict, roster, heap, emps)))

\* The first (change, entry) pair, in loop order, that _apply_resolution
\* writes: the entry has the change's employee id and its shifts hold the day.
ApplyTargets(roster, heap, resolution) ==
    {p \in (1..Len(resolution.changes)) \X (1..Len(roster)) :
        /\ roster[p[2]].employee_id = resolution.changes[p[1]].employee_id
        /\ resolution.changes[p[1]].day \in DOMAIN heap[roster[p[2]].shifts]}

\* A resolver that reports the first matching change as applied but leaves the
\* shift record as it was.
ApplyResolutionNoWrite(roster, heap, resolution) ==
    [success |-> ApplyTargets(roster, heap, resolution) # {}, heap |-> heap]

\* A resolver that reports every option as applied, also one with no change
\* it could write.
ApplyResolutionAlwaysApplied(roster, heap, resolution) ==
    LET targets == ApplyTargets(roster, heap, resolution)
    IN  IF targets = {} THEN [success |-> TRUE, heap |-> heap]
        ELSE LET p == CHOOSE t \in targets :
                        \A u \in targets :
                            t[1] < u[1] \/ (t[1] = u[1] /\ t[2] <= u[2])
                 change == resolution.changes[p[1]]
                 ref    == roster[p[2]].shifts
             IN  [success |-> TRUE,
                  heap |-> [heap EXCEPT ![ref][change.day] =
                               (change.field :> change.new_value) @@ @]]

\* _apply_resolution: [success, heap]; writes the one field named by the
\* change into the shift record and returns at once.
ApplyResolution(roster, heap, resolution) ==
    LET targets == ApplyTargets(roster, heap, resolution)
    IN  IF targets = {} THEN [success |-> FALSE, heap |-> heap]
        ELSE LET p == CHOOSE t \in targets :
                        \A u \in targets :
                            t[1] < u[1] \/ (t[1] = u[1] /\ t[2] <= u[2])
                 change == resolution.changes[p[1]]
                 ref    == roster[p[2]].shifts
             IN  [success |-> TRUE,
                  heap |-> [heap EXCEPT ![ref][change.day] =
                               (change.field :> change.new_value) @@ @]]

\* modified_roster = [dict(r) for r in roster]: new entry dicts whose "shifts"
\* are the same dict objects as the roster's.
CopyRoster(roster) == roster

\* resolve_all_conflicts, lines 80 to 87: the outcome of _apply_resolution
\* decides between resolutions_applied and unresolved.
RecordOutcome(st, conflict, best_option, applied) ==
    IF applied.success
    THEN [heap        |-> applied.heap,
          resolutions |-> Append(st.resolutions,
                              [conflict |-> conflict,
                               resolution |-> best_option,
                               applied |-> TRUE]),
          unresolved  |-> st.unresolved]
    ELSE [st EXCEPT !.unresolved = Append(@, conflict)]

\* resolve_all_conflicts, lines 73 to 89: the first suggestion is applied.
ApplyBest(st, conflict, modified_roster, suggestions) ==
    IF Len(suggestions) = 0
    THEN [st EXCEPT !.unresolved = Append(@, conflict)]
    ELSE RecordOutcome(st, conflict, suggestions[1],
                       ApplyResolution(modified_roster, st.heap, suggestions[1]))

\* One iteration of the loop of resolve_all_conflicts: the suggestions for the
\* conflict against the roster as changed so far, and the first one applied.
ResolveConflict(st, conflict, modified_roster, emps) ==
    ApplyBest(st, conflict, modified_roster,
              SuggestResolutions(conflict, modified_roster, st.heap, emps))

\* The loop of resolve_all_conflicts from the state st reached so far: every
\* conflict handled was appended to resolutions_applied or to unresolved, and
\* the loop goes on with the next sorted conflict until all are handled.
RECURSIVE ResolveLoop(_, _, _, _)
ResolveLoop(sorted_conflicts, modified_roster, st, emps) ==
    IF Len(st.resolutions) + Len(st.unresolved) = Len(sorted_conflicts)
    THEN st
    ELSE ResolveLoop(sorted_conflicts, modified_roster,
                     ResolveConflict(st,
                         sorted_conflicts[Len(st.resolutions) + Len(st.unresolved) + 1],
                         modified_roster, emps),
                     emps)

\* resolve_all_conflicts(conflicts, roster, employees)
ResolveAllConflicts(conflicts, roster, heap, emps) ==
    LET sorted_conflicts == SortBySeverity(conflicts)
        modified_roster  == CopyRoster(roster)
        done == ResolveLoop(sorted_conflicts, modified_roster,
                            [heap |-> heap, resolutions |-> <<>>, unresolved |-> <<>>],
                            emps)
    IN  [resolutions_applied  |-> Len(done.resolutions),
         unresolved_count     |-> Len(done.unresolved),
         resolutions          |-> done.resolutions,
         unresolved_conflicts |-> done.unresolved,
         modified_roster      |-> modified_roster,
         heap                 |-> done.heap]

(* ---------------------------- Orchestrator ---------------------------- *)

\* _log_step
LogStep(log, stage) == Append(log, stage)

\* INIT: the workflow starts.
Start ==
    /\ pc = "init"
    /\ workflow_log' = LogStep(workflow_log, "INIT")
    /\ pc' = "demand"
    /\ UNCHANGED <<store_data, employees_data, days, solver_status, roster_result,
                   shifts_heap, validation, resolution_summary, resolved_roster,
                   final_validation, peak_coverage, status, weekly_hours, meets_weekend_target>>

\* Step 1: demand analysis (its report feeds no later phase).
Demand ==
    /\ pc = "demand"
    /\ workflow_log' = LogStep(LogStep(workflow_log, "DEMAND"), "DEMAND")
    /\ pc' = "match"
    /\ UNCHANGED <<store_data, employees_data, days, solver_status, roster_result,
                   shifts_heap, validation, resolution_summary, resolved_roster,
                   final_validation, peak_coverage, status, weekly_hours, meets_weekend_target>>

\* Step 2: skill matching (its report feeds no later phase).
Match ==
    /\ pc = "match"
    /\ workflow_log' = LogStep(LogStep(workflow_log, "MATCH"), "MATCH")
    /\ pc' = "schedule"
    /\ UNCHANGED <<store_data, employees_data, days, solver_status, roster_result,
                   shifts_heap, validation, resolution_summary, resolved_roster,
                   final_validation, peak_coverage, status, weekly_hours, meets_weekend_target>>

\* Step 3: SchedulerService.generate_roster.
Schedule ==
    /\ pc = "schedule"
    /\ \E outcome \in SolverOutcomes :
          LET roster_res == GenerateRoster(outcome)
          IN  /\ solver_status' = roster_res.status
              /\ roster_result' = roster_res.roster
              /\ shifts_heap' = roster_res.heap
              /\ peak_coverage' = roster_res.peak_coverage
              /\ meets_weekend_target' = roster_res.meets_weekend_target
    /\ workflow_log' = LogStep(LogStep(workflow_log, "SCHEDULE"), "SCHEDULE")
    /\ pc' = "validate"
    /\ UNCHANGED <<store_data, employees_data, days, validation, resolution_summary,
                   resolved_roster, final_validation, status, weekly_hours>>

\* Step 4: the initial validation of the scheduler's roster.
Validate ==
    /\ pc = "validate"
    /\ validation' = ValidateRoster(roster_result, shifts_heap, store_data)
    /\ workflow_log' = LogStep(LogStep(workflow_log, "VALIDATE"), "VALIDATE")
    /\ pc' = "resolve"
    /\ UNCHANGED <<store_data, employees_data, days, solver_status, roster_result,
                   shifts_heap, resolution_summary, resolved_roster,
                   final_validation, peak_coverage, status, weekly_hours, meets_weekend_target>>

\* Step 5: the resolver, run when the validation lists any conflict.
Resolve ==
    /\ pc = "resolve"
    /\ Len(validation.conflicts) > 0
    /\ LET result == ResolveAllConflicts(validation.conflicts, roster_result,
                                         shifts_heap, employees_data)
       IN  /\ resolution_summary' =
                [resolutions_applied  |-> result.resolutions_applied,
                 unresolved_count     |-> result.unresolved_count,
                 resolutions          |-> result.resolutions,
                 unresolved_conflicts |-> result.unresolved_conflicts]
           /\ resolved_roster' = result.modified_roster
           /\ shifts_heap' = result.heap
    /\ workflow_log' = LogStep(LogStep(workflow_log, "RESOLVE"), "RESOLVE")
    /\ pc' = "final"
    /\ UNCHANGED <<store_data, employees_data, days, solver_status, roster_result,
                   validation, final_validation, peak_coverage, status, weekly_hours, meets_weekend_target>>

\* A step 5 that can be skipped whatever the validation lists.
SkipResolveUnguarded ==
    /\ pc = "resolve"
    /\ resolved_roster' = roster_result
    /\ pc' = "final"
    /\ UNCHANGED <<workflow_log, store_data, employees_data, days, solver_status,
                   roster_result, shifts_heap, validation, resolution_summary,
                   final_validation, peak_coverage, status, weekly_hours, meets_weekend_target>>

\* Step 5 skipped: the validation lists no conflict.
SkipResolve ==
    /\ pc = "resolve"
    /\ Len(validation.conflicts) = 0
    /\ resolved_roster' = roster_result
    /\ pc' = "final"
    /\ UNCHANGED <<workflow_log, store_data, employees_data, days, solver_status,
                   roster_result, shifts_heap, validation, resolution_summary,
                   final_validation, peak_coverage, status, weekly_hours, meets_weekend_target>>

\* A final validation that is logged under the stage VALIDATE.
FinalLoggedAsValidate ==
    /\ pc = "final"
    /\ final_validation' = ValidateRoster(resolved_roster, shifts_heap, store_data)
    /\ workflow_log' = LogStep(workflow_log, "VALIDATE")
    /\ pc' = "complete"
    /\ UNCHANGED <<store_data, employees_data, days, solver_status, roster_result,
                   shifts_heap, validation, resolution_summary, resolved_roster,
                   peak_coverage, status, weekly_hours, meets_weekend_target>>

\* The final validation of the resolved roster.
Final ==
    /\ pc = "final"
    /\ final_validation' = ValidateRoster(resolved_roster, shifts_heap, store_data)
    /\ workflow_log' = LogStep(workflow_log, "FINAL")
    /\ pc' = "complete"
    /\ UNCHANGED <<store_data, employees_data, days, solver_status, roster_result,
                   shifts_heap, validation, resolution_summary, resolved_roster,
                   peak_coverage, status, weekly_hours, meets_weekend_target>>

\* A response that reports a fallback roster under a status of its own.
CompleteFallbackFailed ==
    /\ pc = "complete"
    /\ status' = IF solver_status = "heuristic" THEN "failed"
                 ELSE IF final_validation.is_valid THEN "success" ELSE "partial"
    /\ workflow_log' = LogStep(workflow_log, "COMPLETE")
    /\ pc' = "done"
    /\ UNCHANGED <<store_data, employees_data, days, solver_status, roster_result,
                   shifts_heap, validation, resolution_summary, resolved_roster,
                   final_validation, peak_coverage, weekly_hours, meets_weekend_target>>

\* The response: "success" when the final validation is valid, else "partial".
Complete ==
    /\ pc = "complete"
    /\ status' = IF final_validation.is_valid THEN "success" ELSE "partial"
    /\ workflow_log' = LogStep(workflow_log, "COMPLETE")
    /\ pc' = "done"
    /\ UNCHANGED <<store_data, employees_data, days, solver_status, roster_result,
                   shifts_heap, validation, resolution_summary, resolved_roster,
                   final_validation, peak_coverage, weekly_hours, meets_weekend_target>>

Next ==
    \/ Start
    \/ Demand
    \/ Match
    \/ Schedule
    \/ Validate
    \/ Resolve
    \/ SkipResolve
    \/ Final
    \/ Complete

Spec == Init /\ [][Next]_vars

(* ------------------- Constraint 3 on one employee ---------------------- *)

\* Largest number of days in a day list Constraint 3 is applied to.
MaxHorizon == 8

\* The shifts of one employee over n days that Constraint 3 is applied to:
\* some days of 3F (12h), then some days of 1F (9h), then days off.
WorkPatterns(n) ==
    { [i \in 1..n |-> IF i <= k[1] THEN "3F"
                      ELSE IF i <= k[1] + k[2] THEN "1F" ELSE "/"] :
        k \in {q \in (0..n) \X (0..n) : q[1] + q[2] <= n} }

\* A scheduler built for one employee of any type over a day list of one to
\* MaxHorizon days.
InitWeeklyHours ==
    /\ pc = "constraint_3"
    /\ workflow_log = <<>>
    /\ store_data = [normal_requirements |-> Requirement(1, 1, 0, 0),
                     peak_requirements   |-> Requirement(1, 1, 0, 0)]
    /\ \E n \in 1..MaxHorizon, t \in EmployeeType :
          /\ days = [i \in 1..n |-> i]
          /\ employees_data = << [id |-> 1, employee_type |-> t, is_manager |-> FALSE,
                                  availability |-> [d \in 1..n |-> <<"3F", "1F">>]] >>
    /\ solver_status = ""
    /\ roster_result = <<>>
    /\ shifts_heap = <<>>
    /\ validation = None
    /\ resolution_summary = None
    /\ resolved_roster = <<>>
    /\ final_validation = None
    /\ peak_coverage = <<>>
    /\ status = ""
    /\ weekly_hours = None
    /\ meets_weekend_target = None

\* Constraint 3 of generate_roster applied to one assignment of the
\* employee's shift variables: the total of the hour variables (in tenths)
\* and whether model.Add(total_hours <= bound) admits it.
ConstrainWeeklyHours ==
    /\ pc = "constraint_3"
    /\ \E pattern \in WorkPatterns(Len(days)) :
          weekly_hours' =
              [shifts      |-> pattern,
               total_hours |-> SumHours([i \in 1..Len(days) |-> <<pattern[i]>>], 1, Len(days)),
               admitted    |-> WeeklyHoursOK([i \in 1..Len(days) |-> <<pattern[i]>>])]
    /\ pc' = "constraint_3_done"
    /\ UNCHANGED <<workflow_log, store_data, employees_data, days, solver_status,
                   roster_result, shifts_heap, validation, resolution_summary,
                   resolved_roster, final_validation, peak_coverage, status,
                   meets_weekend_target>>

NextWeeklyHours == ConstrainWeeklyHours

SpecWeeklyHours == InitWeeklyHours /\ [][NextWeeklyHours]_vars

(* ------------- ResolverAgent called with resolve_conflicts ------------- *)

\* Largest number of conflicts in a resolve_conflicts payload.
MaxConflicts == 2

\* A shift record as the scheduler writes it, with its station.
StationedRecord(code) ==
    [shift_code |-> code,
     shift_name |-> SHIFT_DEFINITIONS(code).name,
     hours      |-> SHIFT_DEFINITIONS(code).hours,
     station    |-> "Counter"]

\* The shifts dicts of the rosters of a payload: for the first employee a
\* closing shift then an opening shift, with or without the second day and
\* with or without the station key; for the second a day off then a Full Day.
PayloadShifts ==
    [first  |-> { (5 :> StationedRecord("2F")) @@ (6 :> StationedRecord("1F")),
                  (5 :> StationedRecord("2F")),
                  (5 :> ShiftRecord("2F")) @@ (6 :> DayOffRecord) },
     second |-> { (5 :> StationedRecord("/")) @@ (6 :> StationedRecord("3F")),
                  (5 :> DayOffRecord) @@ (6 :> ShiftRecord("3F")) }]

PayloadEntry(id, is_manager) ==
    [employee_id |-> id, employee_type |-> "Casual", is_manager |-> is_manager,
     shifts |-> id, total_hours |-> 0]

\* The employees of a payload: a manager of the Kitchen available on both
\* days and a Counter employee certified for the Kitchen without availability.
PayloadEmployees ==
    << [id |-> 1, employee_type |-> "Casual", is_manager |-> TRUE,
        availability |-> (5 :> <<"S">>) @@ (6 :> <<"S">>),
        primary_station |-> "Kitchen"],
       [id |-> 2, employee_type |-> "Casual", is_manager |-> FALSE,
        availability |-> [d \in {} |-> <<>>],
        primary_station |-> "Counter", certified_stations |-> <<"Kitchen">>] >>

\* The conflicts of a payload; employee 3 has no roster entry.
PayloadConflicts ==
    { Conflict("rest_period_violation", "critical", 1, <<5, 6>>, "", 0),
      Conflict("rest_period_violation", "critical", 3, <<5, 6>>, "", 0),
      Conflict("no_manager", "critical", NoEmployee, <<6>>, "", 0),
      Conflict("understaffed", "high", NoEmployee, <<5>>, "", 0),
      Conflict("max_hours_exceeded", "high", 2, <<>>, "", 120),
      Conflict("peak_understaffed", "high", NoEmployee, <<6>>, "dinner_peak", 0),
      Conflict("min_hours_not_met", "medium", 1, <<>>, "", 0),
      Conflict("labor_law_violation", "low", 1, <<6>>, "", 0),
      [type |-> "skill_mismatch", severity |-> "high", employee_id |-> NoEmployee,
       station |-> "Kitchen", day |-> 6] }

\* ResolverAgent.process with action resolve_conflicts: a payload of one to
\* MaxConflicts conflicts, a roster of one or two entries and the employees.
InitResolver ==
    /\ pc = "resolve"
    /\ workflow_log = <<>>
    /\ store_data = [normal_requirements |-> Requirement(1, 1, 0, 0),
                     peak_requirements   |-> Requirement(1, 1, 0, 0)]
    /\ days = <<5, 6>>
    /\ employees_data = PayloadEmployees
    /\ solver_status = ""
    /\ \E first \in PayloadShifts.first, second \in PayloadShifts.second,
          size \in 1..2 :
          /\ shifts_heap = SubSeq(<<first, second>>, 1, size)
          /\ roster_result = SubSeq(<<PayloadEntry(1, TRUE), PayloadEntry(2, FALSE)>>,
                                    1, size)
    /\ \E n \in 1..MaxConflicts : \E conflicts \in [1..n -> PayloadConflicts] :
          validation = [conflicts |-> conflicts]
    /\ resolution_summary = None
    /\ resolved_roster = <<>>
    /\ final_validation = None
    /\ peak_coverage = <<>>
    /\ status = ""
    /\ weekly_hours = None
    /\ meets_weekend_target = None

NextResolver == Resolve

SpecResolver == InitResolver /\ [][NextResolver]_vars

(* ------------------ _calculate_peak_coverage on a roster --------------- *)

\* The number of entries of the rosters the coverage is calculated for.
MaxRostered == 2

\* Day lists with weekdays only, weekend days only and both: Thursday is 4,
\* Saturday 6.
CoverageDayLists == {<<4, 5, 6>>, <<5, 6>>, <<6, 7>>, <<4, 5>>}

\* A roster of MaxRostered entries with 3F (both peaks), S (lunch peak) or the
\* day off on every day of the list.
InitPeakCoverage ==
    /\ pc = "peak_coverage"
    /\ workflow_log = <<>>
    /\ store_data = [normal_requirements |-> Requirement(1, 1, 0, 0),
                     peak_requirements   |-> Requirement(1, 1, 0, 0)]
    /\ days \in CoverageDayLists
    /\ employees_data = <<>>
    /\ solver_status = ""
    /\ roster_result =
          [e \in 1..MaxRostered |->
              [employee_id |-> e, employee_type |-> "Casual", is_manager |-> e = 1,
               shifts |-> e, total_hours |-> 0]]
    /\ \E codes \in [1..MaxRostered -> [SeqToSet(days) -> {"3F", "S", "/"}]] :
          shifts_heap = [e \in 1..MaxRostered |->
                            [d \in SeqToSet(days) |-> ShiftRecord(codes[e][d])]]
    /\ validation = None
    /\ resolution_summary = None
    /\ resolved_roster = <<>>
    /\ final_validation = None
    /\ peak_coverage = <<>>
    /\ status = ""
    /\ weekly_hours = None
    /\ meets_weekend_target = None

\* peak_coverage = self._calculate_peak_coverage(roster)
CalculateCoverage ==
    /\ pc = "peak_coverage"
    /\ peak_coverage' = CalculatePeakCoverage(roster_result, shifts_heap)
    /\ meets_weekend_target' =
          MeetsWeekendTarget(WeekendVsWeekday(roster_result, shifts_heap, Len(days)))
    /\ pc' = "peak_coverage_done"
    /\ UNCHANGED <<workflow_log, store_data, employees_data, days, solver_status,
                   roster_result, shifts_heap, validation, resolution_summary,
                   resolved_roster, final_validation, status, weekly_hours>>

NextPeakCoverage == CalculateCoverage

SpecPeakCoverage == InitPeakCoverage /\ [][NextPeakCoverage]_vars

(* ------------- ValidatorAgent called with validate_roster -------------- *)

\* The shift codes of the rosters of a validate_roster payload.
PayloadCodes == {"M", "2F", "1F", "/"}

\* The stores of a validate_roster payload: one whose normal requirements
\* carry a "total_staff" key (1) and whose peak requirements are for the
\* dessert station only, and one as the orchestrator passes it.
PayloadStores ==
    { [normal_requirements |-> Requirement(1, 0, 0, 0) @@ [total_staff |-> 1],
       peak_requirements   |-> Requirement(0, 0, 0, 1)],
      [normal_requirements |-> Requirement(1, 1, 0, 0),
       peak_requirements   |-> Requirement(1, 1, 0, 0)] }

\* ValidatorAgent.process with action validate_roster: a roster of a
\* Full-Time and a Part-Time manager over a Friday and a Saturday.
InitValidator ==
    /\ pc = "validate"
    /\ workflow_log = <<>>
    /\ store_data \in PayloadStores
    /\ days = <<5, 6>>
    /\ employees_data = <<>>
    /\ solver_status = ""
    /\ roster_result =
          << [employee_id |-> 1, employee_type |-> "Full-Time", is_manager |-> TRUE,
              shifts |-> 1, total_hours |-> 0],
             [employee_id |-> 2, employee_type |-> "Part-Time", is_manager |-> TRUE,
              shifts |-> 2, total_hours |-> 0] >>
    /\ \E codes \in [1..2 -> [{5, 6} -> PayloadCodes]] :
          shifts_heap = [e \in 1..2 |-> [d \in {5, 6} |-> ShiftRecord(codes[e][d])]]
    /\ validation = None
    /\ resolution_summary = None
    /\ resolved_roster = <<>>
    /\ final_validation = None
    /\ peak_coverage = <<>>
    /\ status = ""
    /\ weekly_hours = None
    /\ meets_weekend_target = None

NextValidator == Validate

SpecValidator == InitValidator /\ [][NextValidator]_vars

\* A roster as its reader sees it: every entry with its shifts dict.
RosterView(roster, heap) ==
    [r \in 1..Len(roster) |-> [roster[r] EXCEPT !.shifts = heap[roster[r].shifts]]]

(* ------------------------------- claims ------------------------------- *)

Scheduled == pc \in {"validate", "resolve", "final", "complete", "done"}

Solved == solver_status \in {"optimal", "feasible"}

\* shifts dict of roster entry r
ShiftsOf(roster, r) == shifts_heap[roster[r].shifts]

StageRank(stage) ==
    CASE stage = "INIT"     -> 0
      [] stage = "DEMAND"   -> 1
      [] stage = "MATCH"    -> 2
      [] stage = "SCHEDULE" -> 3
      [] stage = "VALIDATE" -> 4
      [] stage = "RESOLVE"  -> 5
      [] stage = "FINAL"    -> 6
      [] OTHER              -> 7

LoggedStages == {workflow_log[i] : i \in 1..Len(workflow_log)}

\* C1: the stages of workflow_log appear in the order INIT, DEMAND, MATCH,
\* SCHEDULE, VALIDATE, RESOLVE (optional), FINAL, COMPLETE; a finished run has
\* logged every stage but possibly RESOLVE; the phases run in the order
\* schedule, validate, repair, validate: the initial validation is there only
\* once the scheduler has produced its roster, it is the validation of the
\* scheduler's roster and is computed while no repair has run, and the final
\* validation is the validation of the roster the repair produced.
C1_PhaseOrder ==
    /\ \A i, j \in 1..Len(workflow_log) :
          i < j => StageRank(workflow_log[i]) <= StageRank(workflow_log[j])
    /\ pc = "done" =>
          /\ {"INIT", "DEMAND", "MATCH", "SCHEDULE", "VALIDATE", "FINAL", "COMPLETE"}
                \subseteq LoggedStages
          /\ ("RESOLVE" \in LoggedStages) = (resolution_summary # None)
    /\ validation # None => solver_status # ""
    /\ resolution_summary # None => validation # None
    /\ final_validation # None => validation # None /\ pc \in {"complete", "done"}
    /\ pc = "resolve" =>
          /\ resolution_summary = None
          /\ validation = ValidateRoster(roster_result, shifts_heap, store_data)
    /\ pc \in {"complete", "done"} =>
          final_validation = ValidateRoster(resolved_roster, shifts_heap, store_data)

\* A finished run in which the resolver ran and applied a resolution.
C1_Witness ==
    /\ pc = "done"
    /\ resolution_summary # None
    /\ resolution_summary.resolutions_applied > 0
    /\ "RESOLVE" \in LoggedStages

\* C2: the roster handed to resolve_all_conflicts (roster_result, every entry
\* and every per-day shift record of it) is the same after the call as before.
C2_InputRosterUnchanged ==
    [][pc = "resolve" =>
          RosterView(roster_result, shifts_heap)' = RosterView(roster_result, shifts_heap)]_vars

CatalogHours(code) == SHIFT_DEFINITIONS(code).hours

HoursFromCatalog(roster, r) ==
    LET shifts == ShiftsOf(roster, r)
    IN  /\ \A d \in DOMAIN shifts : shifts[d].hours = CatalogHours(shifts[d].shift_code)
        /\ roster[r].total_hours =
              SumOver([d \in DOMAIN shifts |-> CatalogHours(shifts[d].shift_code)],
                      DOMAIN shifts)

\* C3: in the scheduler's roster and in the roster returned after repair, each
\* shift record's hours are the catalog hours of its shift code and each
\* employee's total_hours is the sum of the catalog hours of the shift codes.
C3_HoursFromCatalog ==
    /\ Scheduled => \A r \in 1..Len(roster_result) : HoursFromCatalog(roster_result, r)
    /\ pc = "done" => \A r \in 1..Len(resolved_roster) : HoursFromCatalog(resolved_roster, r)

\* The value of a change's field in the returned roster.
FieldInRoster(change) ==
    LET r == FindSchedule(resolved_roster, change.employee_id)
    IN  IF r = 0 \/ change.day \notin DOMAIN ShiftsOf(resolved_roster, r)
        THEN ""
        ELSE ShiftsOf(resolved_roster, r)[change.day][change.field]

SameTarget(c1, c2) ==
    c1.employee_id = c2.employee_id /\ c1.day = c2.day /\ c1.field = c2.field

AppliedChanges(i) == resolution_summary.resolutions[i].resolution.changes

\* C4 as stated: every change of every applied resolution is present in the
\* returned modified_roster.
C4_AllAppliedChangesPresent ==
    (pc = "done" /\ resolution_summary # None) =>
        \A i \in 1..Len(resolution_summary.resolutions) :
            \A k \in 1..Len(AppliedChanges(i)) :
                FieldInRoster(AppliedChanges(i)[k]) = AppliedChanges(i)[k].new_value

\* A later applied resolution changes the same field of the same shift record.
Overwritten(i, k) ==
    \E j \in (i + 1)..Len(resolution_summary.resolutions) :
        \E m \in 1..Len(AppliedChanges(j)) :
            SameTarget(AppliedChanges(j)[m], AppliedChanges(i)[k])

\* C4 amended: every change of every applied resolution is present in the
\* returned modified_roster unless a resolution applied later changed the same
\* field of the same (employee, day) record; the record then holds the value
\* of the last such resolution.
C4_AppliedChangesPresentUnlessOverwritten ==
    (pc = "done" /\ resolution_summary # None) =>
        \A i \in 1..Len(resolution_summary.resolutions) :
            \A k \in 1..Len(AppliedChanges(i)) :
                \/ FieldInRoster(AppliedChanges(i)[k]) = AppliedChanges(i)[k].new_value
                \/ Overwritten(i, k)

\* A finished run in which one applied resolution was overwritten by a later
\* one and another is still present.
C4_Witness ==
    /\ pc = "done"
    /\ resolution_summary # None
    /\ \E i \in 1..Len(resolution_summary.resolutions) :
          Len(AppliedChanges(i)) > 0 /\ Overwritten(i, 1)
          /\ FieldInRoster(AppliedChanges(i)[1]) # AppliedChanges(i)[1].new_value
    /\ \E i \in 1..Len(resolution_summary.resolutions) :
          Len(AppliedChanges(i)) > 0 /\ ~Overwritten(i, 1)

\* ceil(staff * 1.20) on a weekend day, staff otherwise
CeilWeekendAdjusted(staff, day) ==
    IF IsWeekend(day) THEN (staff * 120 + 99) \div 100 ELSE staff

\* C5: with solver status Optimal or Feasible, on every day the number of
\* employees on a lunch-peak shift, and the number on a dinner-peak shift, is
\* at least ceil(total_peak * W(d)), W = 1.20 on Saturday and Sunday, else 1.
C5_PeakCoverageCeil ==
    (pc = "validate" /\ Solved) =>
        \A i \in 1..Len(days) :
            LET bound == CeilWeekendAdjusted(total_staff(store_data.peak_requirements),
                                             days[i])
            IN  /\ CountShifts(roster_result, shifts_heap, days[i], lunch_peak_shifts)
                      >= bound
                /\ CountShifts(roster_result, shifts_heap, days[i], dinner_peak_shifts)
                      >= bound

\* The shift code of entry r on day d is "/" or listed in the availability of
\* the employee for that day.
WithinAvailability(roster, r, d) ==
    LET code == ShiftCodeGet(ShiftsOf(roster, r), d)
        emp  == employees_data[FindSchedule(roster, roster[r].employee_id)]
    IN  code # "/" =>
            /\ d \in DOMAIN emp.availability
            /\ code \in SeqToSet(emp.availability[d])

\* C6: with solver status Optimal or Feasible, in the roster returned after
\* the repair phase every shift code other than "/" is listed in the
\* employee's availability for that day.
C6_RepairedWithinAvailability ==
    (pc = "done" /\ Solved) =>
        \A r \in 1..Len(resolved_roster) : \A i \in 1..Len(days) :
            WithinAvailability(resolved_roster, r, days[i])

\* C7: with solver status Optimal or Feasible, in the roster the scheduler
\* produced every shift code other than "/" is listed in the employee's
\* availability for that day; an employee without an entry for the day has "/".
C7_DecodedWithinAvailability ==
    (pc = "validate" /\ Solved) =>
        \A r \in 1..Len(roster_result) : \A i \in 1..Len(days) :
            WithinAvailability(roster_result, r, days[i])

\* A solved roster in which an employee without an entry for a day has the day
\* off and works, within the availability, on another day.
C7_Witness ==
    /\ pc = "validate"
    /\ Solved
    /\ \E r \in 1..Len(roster_result) : \E d1, d2 \in SeqToSet(days) :
          /\ d1 \notin DOMAIN employees_data[r].availability
          /\ ShiftCodeGet(ShiftsOf(roster_result, r), d1) = "/"
          /\ ShiftCodeGet(ShiftsOf(roster_result, r), d2) # "/"

\* C8: with solver status Optimal or Feasible, in the roster the scheduler
\* produced no employee has a closing shift on a day of the list and an
\* opening shift on the next day of the list.
C8_NoClosingThenOpening ==
    (pc = "validate" /\ Solved) =>
        \A r \in 1..Len(roster_result) : \A i \in 1..(Len(days) - 1) :
            ~(/\ SHIFT_DEFINITIONS(ShiftCodeGet(ShiftsOf(roster_result, r), days[i])).is_closing
              /\ SHIFT_DEFINITIONS(ShiftCodeGet(ShiftsOf(roster_result, r), days[i + 1])).is_opening)

\* A solved roster in which an employee who is available for a closing shift
\* on one day and an opening shift on the next works on both days.
C8_Witness ==
    /\ pc = "validate"
    /\ Solved
    /\ \E r \in 1..Len(roster_result) : \E i \in 1..(Len(days) - 1) :
          /\ \E s \in AllowedCodes(employees[r], days[i]) : SHIFT_DEFINITIONS(s).is_closing
          /\ \E s \in AllowedCodes(employees[r], days[i + 1]) : SHIFT_DEFINITIONS(s).is_opening
          /\ ShiftCodeGet(ShiftsOf(roster_result, r), days[i]) # "/"
          /\ ShiftCodeGet(ShiftsOf(roster_result, r), days[i + 1]) # "/"

\* The roster has one entry per employee of the request, in order, and each
\* entry has exactly one shift record for every day of the day list.
OneRecordPerEmployeeDay(roster) ==
    /\ Len(roster) = Len(employees_data)
    /\ \A r \in 1..Len(roster) :
          /\ roster[r].employee_id = employees_data[r].id
          /\ DOMAIN ShiftsOf(roster, r) = SeqToSet(days)

\* C9: the scheduler's roster (decoded or fallback) and the roster returned
\* after repair hold exactly one shift record for every employee and every day
\* of the request.
C9_OneRecordPerEmployeeDay ==
    /\ Scheduled => OneRecordPerEmployeeDay(roster_result)
    /\ pc \in {"final", "complete", "done"} => OneRecordPerEmployeeDay(resolved_roster)

\* A finished run whose roster holds a day-off record and in which the repair
\* applied a resolution.
C9_Witness ==
    /\ pc = "done"
    /\ Solved
    /\ resolution_summary # None
    /\ resolution_summary.resolutions_applied > 0
    /\ \E r \in 1..Len(resolved_roster) : \E d \in SeqToSet(days) :
          ShiftCodeGet(ShiftsOf(resolved_roster, r), d) = "/"

\* The max_hours_exceeded conflicts of a validation for an employee.
MaxHoursConflicts(val, emp_id) ==
    SelectSeq(val.conflicts,
              LAMBDA c : c.type = "max_hours_exceeded" /\ c.employee_id = emp_id)

\* The repair reduced one 3F shift of the employee to 1F for its
\* max_hours_exceeded conflict.
ShortenedForMaxHours(emp_id) ==
    /\ resolution_summary # None
    /\ \E i \in 1..Len(resolution_summary.resolutions) :
          /\ resolution_summary.resolutions[i].conflict.type = "max_hours_exceeded"
          /\ resolution_summary.resolutions[i].conflict.employee_id = emp_id
          /\ AppliedChanges(i) = <<Change(emp_id, AppliedChanges(i)[1].day, "1F")>>

\* C10 (Scenario D): a Part-Time employee with five 3F days in a week (60h)
\* whose max_hours_exceeded conflict is repaired by reducing one 3F to 1F is
\* validated at 57h in the final validation, which holds exactly one
\* max_hours_exceeded conflict for the employee, and the status is "partial".
C10_ScenarioD ==
    (pc = "done" /\ Len(days) = 7) =>
        \A r \in 1..Len(resolved_roster) :
            LET emp_id == resolved_roster[r].employee_id
            IN  (/\ resolved_roster[r].employee_type = "Part-Time"
                 /\ Len(MaxHoursConflicts(validation, emp_id)) = 1
                 /\ MaxHoursConflicts(validation, emp_id)[1].total_hours = 600
                 /\ ShortenedForMaxHours(emp_id))
                => /\ Len(MaxHoursConflicts(final_validation, emp_id)) = 1
                   /\ MaxHoursConflicts(final_validation, emp_id)[1].total_hours = 570
                   /\ status = "partial"

\* The request is Scenario A.
IsScenarioA ==
    /\ store_data = ScenarioA.store_data
    /\ days = ScenarioA.days
    /\ employees_data = ScenarioA.employees_data

NoManagerConflicts(val) == SelectSeq(val.conflicts, LAMBDA c : c.type = "no_manager")

\* C11 (Scenario A): for a Full-Time manager and four Casual crew available
\* only for S on one Monday, and a store with normal = peak = 4, the returned
\* roster assigns S to every employee, final_validation.is_valid is true iff
\* the constraint model has a solution, peak_coverage.lunch_peak of the day
\* has met = true, and no no_manager conflict is reported.
C11_ScenarioA ==
    (pc = "done" /\ IsScenarioA) =>
        /\ \A r \in 1..Len(resolved_roster) :
              ShiftCodeGet(ShiftsOf(resolved_roster, r), days[1]) = "S"
        /\ final_validation.is_valid = (Solutions # {})
        /\ peak_coverage[days[1]].lunch_peak.met
        /\ Len(NoManagerConflicts(validation)) = 0
        /\ Len(NoManagerConflicts(final_validation)) = 0

HardConflicts(val) ==
    SelectSeq(val.conflicts, LAMBDA c : c.severity \in {"critical", "high"})

\* C12: the RESOLVE stage is skipped exactly when the initial validation has
\* is_valid = true: step 5 invokes the resolver (a resolution summary is set
\* and RESOLVE is logged) iff the initial validation lists a critical or high
\* conflict; when it is skipped there is no resolution summary, RESOLVE is not
\* logged and the final roster is the scheduler's roster, unchanged.
C12_ResolveSkippedIffValid ==
    [][pc = "resolve" =>
          /\ validation.is_valid = (Len(HardConflicts(validation)) = 0)
          /\ IF validation.is_valid
             THEN /\ resolution_summary' = None
                  /\ workflow_log' = workflow_log
                  /\ resolved_roster' = roster_result
                  /\ RosterView(resolved_roster, shifts_heap)'
                        = RosterView(roster_result, shifts_heap)
             ELSE /\ resolution_summary' # None
                  /\ "RESOLVE" \in {workflow_log'[i] : i \in 1..Len(workflow_log')}]_vars

\* A finished run over employees whose initial validation was valid and in
\* which the resolver was not run.
C12_Witness ==
    /\ pc = "done"
    /\ Len(roster_result) > 0
    /\ validation.is_valid
    /\ resolution_summary = None
    /\ "RESOLVE" \notin LoggedStages

\* C13: the status of the response is "success" iff the final (post-repair)
\* validation has is_valid = true, i.e. lists no critical or high conflict,
\* and "partial" otherwise; no other status is returned, whatever the solver
\* status was, the fallback roster included.
C13_StatusFromFinalValidation ==
    /\ pc # "done" => status = ""
    /\ pc = "done" =>
          /\ status \in {"success", "partial"}
          /\ (status = "success") = final_validation.is_valid
          /\ (status = "success") = (Len(HardConflicts(final_validation)) = 0)

\* A finished run on the fallback roster whose final validation is not valid.
C13_Witness ==
    /\ pc = "done"
    /\ solver_status = "heuristic"
    /\ Len(resolved_roster) > 0
    /\ ~final_validation.is_valid
    /\ status = "partial"

\* The request holds an employee whose employee_type is not a defined literal.
Malformed ==
    \E i \in 1..Len(employees_data) : employees_data[i].employee_type \notin EmployeeType

\* C14: for a request with an unknown enum value (an employee_type that is
\* not a defined literal) no pipeline phase runs or yields a result: nothing
\* beyond INIT is logged, and there is no roster, no validation, no resolution
\* summary and no status.
C14_MalformedInputRejected ==
    Malformed =>
        /\ LoggedStages \subseteq {"INIT"}
        /\ solver_status = ""
        /\ roster_result = <<>>
        /\ validation = None
        /\ resolution_summary = None
        /\ final_validation = None
        /\ status = ""

\* Every employee of the request lists only "/" on every day of a non-empty
\* day list.
AllOff ==
    /\ Len(employees_data) > 0
    /\ Len(days) > 0
    /\ \A i \in 1..Len(employees_data) : \A d \in SeqToSet(days) :
          AvailabilityGet(employees_data[i].availability, d) = <<"/">>

\* The validation lists a conflict of the type and period for the day.
HasDayConflict(val, type, period, d) ==
    \E k \in 1..Len(val.conflicts) :
        /\ val.conflicts[k].type = type
        /\ val.conflicts[k].period = period
        /\ val.conflicts[k].days = <<d>>

NoEmployees == Len(employees_data) = 0 /\ Len(days) > 0

\* The resolution summary holds an applied resolution for a conflict of the type.
ResolvedOfType(type) ==
    \E i \in 1..Len(resolution_summary.resolutions) :
        resolution_summary.resolutions[i].conflict.type = type

\* C16: with zero employees and a non-empty day list the roster is empty, the
\* status is "partial", the initial and the final validation list a
\* no_manager conflict for every day, and the repair resolves none of them:
\* each is returned among the unresolved conflicts.
C16_ZeroEmployees ==
    NoEmployees =>
        /\ Scheduled => roster_result = <<>>
        /\ validation # None =>
              \A d \in SeqToSet(days) : HasDayConflict(validation, "no_manager", "", d)
        /\ pc = "done" =>
              /\ resolved_roster = <<>>
              /\ status = "partial"
              /\ resolution_summary # None
              /\ ~ResolvedOfType("no_manager")
              /\ \A d \in SeqToSet(days) :
                    /\ HasDayConflict([conflicts |-> resolution_summary.unresolved_conflicts],
                                      "no_manager", "", d)
                    /\ HasDayConflict(final_validation, "no_manager", "", d)

\* A finished run without employees over more than one day.
C16_Witness ==
    /\ NoEmployees
    /\ Len(days) > 1
    /\ pc = "done"
    /\ status = "partial"
    /\ resolution_summary.unresolved_count >= Len(days)

\* weeks = ceil(|days| / 7)
CeilWeeks == (Len(days) + 6) \div 7

\* C17: the validator lists a max_hours_exceeded conflict (severity high) for
\* an employee iff the employee's total hours over the day list are strictly
\* greater than max_weekly(type) * weeks, weeks = ceil(|days| / 7), for every
\* length of the day list.
C17_MaxHoursCeilWeeks ==
    pc = "resolve" =>
        \A r \in 1..Len(roster_result) :
            LET found == MaxHoursConflicts(validation, roster_result[r].employee_id)
            IN  /\ (Len(found) > 0) =
                      (ValidatedHours(roster_result[r], shifts_heap)
                          > get_hour_limits(roster_result[r].employee_type)[2] * 10 * CeilWeeks)
                /\ \A k \in 1..Len(found) : found[k].severity = "high"

\* Number of entries of the scheduler's roster with a shift other than "/" on day d.
StaffCount(d) ==
    Cardinality({r \in 1..Len(roster_result) :
                    ShiftCodeGet(ShiftsOf(roster_result, r), d) # "/"})

\* C18: the validator lists an understaffed conflict (severity high) for a
\* day iff the number of employees with a shift other than "/" on that day is
\* strictly less than the store's normal total headcount, the sum of the
\* normal requirements over the stations.
C18_UnderstaffedAgainstNormalTotal ==
    pc = "resolve" =>
        \A d \in SeqToSet(days) :
            /\ HasDayConflict(validation, "understaffed", "", d)
                  = (StaffCount(d) < total_staff(store_data.normal_requirements))
            /\ \A k \in 1..Len(validation.conflicts) :
                  validation.conflicts[k].type = "understaffed"
                      => validation.conflicts[k].severity = "high"

\* ceil(1.1 * max_weekly(type) * weeks), weeks = ceil(|days| / 7), in hours
CeilHoursBound(employee_type) ==
    (11 * get_hour_limits(employee_type)[2] * CeilWeeks + 9) \div 10

\* C19: Constraint 3 admits an assignment of employee e iff H_e, the sum of
\* the hours of e's assigned shifts over the day list, is at most
\* ceil(1.1 * max_weekly(type(e)) * weeks) with weeks = ceil(|days| / 7); a
\* day list of 8 to 13 days has the bound of two weeks.
C19_WeeklyHoursCeiling ==
    weekly_hours # None =>
        weekly_hours.admitted =
            (weekly_hours.total_hours
                <= 10 * CeilHoursBound(employees[1].employee_type))

\* The first code of the list, in list order, that is a working shift of the
\* catalog; "/" when there is none.
FirstCatalogCode(available) ==
    LET listed == SelectSeq(available, LAMBDA c : c \in ShiftTypeSet)
    IN  IF Len(listed) > 0 THEN listed[1] ELSE "/"

\* C20: on the fallback path (solver status neither Optimal nor Feasible) the
\* roster holds, for each employee and day, the first code in list order of
\* the employee's availability for the day that is a working shift of the
\* catalog, and "/" only if no listed code is one or the day has no entry.
C20_FallbackFirstCatalogCode ==
    (pc \in {"validate", "resolve"} /\ solver_status = "heuristic") =>
        \A r \in 1..Len(roster_result) : \A d \in SeqToSet(days) :
            ShiftCodeGet(ShiftsOf(roster_result, r), d)
                = FirstCatalogCode(AvailabilityGet(employees_data[r].availability, d))

\* The resolution has a change, and for every change the roster has an entry
\* of the employee whose shifts hold the day, with the field on that record.
TargetAndFieldsExist(roster, heap, resolution) ==
    /\ Len(resolution.changes) > 0
    /\ \A k \in 1..Len(resolution.changes) :
          \E r \in 1..Len(roster) :
              /\ roster[r].employee_id = resolution.changes[k].employee_id
              /\ resolution.changes[k].day \in DOMAIN heap[roster[r].shifts]
              /\ resolution.changes[k].field
                    \in DOMAIN heap[roster[r].shifts][resolution.changes[k].day]

\* The step records the first suggestion as applied when its target and
\* fields exist, and otherwise leaves the roster as it was and records the
\* conflict as unresolved.
AppliedAsClaimed(suggestions) ==
    IF Len(suggestions) > 0
          /\ TargetAndFieldsExist(roster_result, shifts_heap, suggestions[1])
    THEN /\ resolution_summary'.resolutions_applied = 1
         /\ resolution_summary'.resolutions[1].resolution = suggestions[1]
         /\ resolution_summary'.unresolved_count = 0
    ELSE /\ resolution_summary'.resolutions_applied = 0
         /\ resolution_summary'.unresolved_conflicts = validation.conflicts
         /\ shifts_heap' = shifts_heap

\* C21: a resolution is applied, and recorded as applied, iff the target
\* (employee_id, day) of its changes exists in the working roster and every
\* field it references already exists on that shift record; otherwise the
\* roster is left unchanged and the conflict is recorded as unresolved.
C21_AppliedIffTargetAndFieldsExist ==
    [][(pc = "resolve" /\ Len(validation.conflicts) = 1) =>
          AppliedAsClaimed(SuggestResolutions(validation.conflicts[1], roster_result,
                                              shifts_heap, employees_data))]_vars

\* The (employee, day) targets of a list of options, with the value each sets.
OptionTargets(options) ==
    {<<options[i].changes[1].employee_id, options[i].changes[1].day,
       options[i].changes[1].new_value>> : i \in 1..Len(options)}

IsManagerId(emp_id) ==
    \E k \in 1..Len(employees_data) :
        employees_data[k].id = emp_id /\ employees_data[k].is_manager

\* C22: for a no_manager conflict on day d the resolver offers an option (set
\* the shift to S, impact 1.0) for exactly the employees the understaffed
\* generator would offer for d that are managers: employees with "/" on d
\* who have an availability entry for d or no availability at all; a manager
\* whose non-empty availability lacks d is not offered.
C22_NoManagerOptionsFiltered ==
    pc = "resolve" =>
        \A k \in 1..Len(validation.conflicts) :
            validation.conflicts[k].type = "no_manager" =>
                /\ OptionTargets(ResolveNoManager(validation.conflicts[k], roster_result,
                                                  shifts_heap, employees_data))
                      = {t \in OptionTargets(ResolveUnderstaffed(validation.conflicts[k],
                                                 roster_result, shifts_heap, employees_data)) :
                            IsManagerId(t[1])}
                /\ \A o \in SeqToSet(ResolveNoManager(validation.conflicts[k], roster_result,
                                                       shifts_heap, employees_data)) :
                      o.impact_score = 40 /\ o.changes[1].new_value = "S"

\* The findings of a validation are classified as the claim states.
WarningsApart(val) ==
    /\ val.is_valid = (Len(HardConflicts(val)) = 0)
    /\ val.hard_constraint_violations = Len(HardConflicts(val))
    /\ \A k \in 1..Len(val.conflicts) : val.conflicts[k].type # "min_hours_not_met"
    /\ \A k \in 1..Len(val.warnings) :
          /\ val.warnings[k].type = "min_hours_not_met"
          /\ val.warnings[k].severity = "medium"

RestViolations(val, emp_id, d1, d2) ==
    {k \in 1..Len(val.conflicts) :
        /\ val.conflicts[k].type = "rest_period_violation"
        /\ val.conflicts[k].employee_id = emp_id
        /\ val.conflicts[k].days = <<d1, d2>>}

\* One critical conflict for every entry and pair of consecutive days with a
\* closing code followed by an opening code, none for any other.
RestPeriodByFlags(val, roster, heap) ==
    /\ \A r \in 1..Len(roster), i \in 1..(Len(days) - 1) :
          LET c1 == ShiftCodeGet(heap[roster[r].shifts], days[i])
              c2 == ShiftCodeGet(heap[roster[r].shifts], days[i + 1])
              found == RestViolations(val, roster[r].employee_id, days[i], days[i + 1])
          IN  /\ Cardinality(found) =
                    IF SHIFT_DEFINITIONS(c1).is_closing /\ SHIFT_DEFINITIONS(c2).is_opening
                    THEN 1 ELSE 0
              /\ \A k \in found : val.conflicts[k].severity = "critical"
    /\ \A k \in 1..Len(val.conflicts) :
          val.conflicts[k].type = "rest_period_violation" =>
              \E r \in 1..Len(roster), i \in 1..(Len(days) - 1) :
                  k \in RestViolations(val, roster[r].employee_id, days[i], days[i + 1])

\* C24: for every employee and pair of consecutive days the validator lists
\* exactly one critical rest_period_violation with that employee's id and
\* those two days iff the first day's code is a closing code and the second
\* day's an opening code by the catalog flags, and none otherwise; checked on
\* the scheduler's roster (a fallback roster included) when it is validated
\* and on the resolved roster when it is validated again.
C24_RestPeriodByCatalogFlags ==
    /\ pc = "resolve" => RestPeriodByFlags(validation, roster_result, shifts_heap)
    /\ pc = "complete" => RestPeriodByFlags(final_validation, resolved_roster, shifts_heap)

\* A fallback roster with 2F on a day and 1F on the next, validated.
C24_Witness ==
    /\ pc = "resolve"
    /\ solver_status = "heuristic"
    /\ \E r \in 1..Len(roster_result), i \in 1..(Len(days) - 1) :
          /\ ShiftCodeGet(shifts_heap[roster_result[r].shifts], days[i]) = "2F"
          /\ ShiftCodeGet(shifts_heap[roster_result[r].shifts], days[i + 1]) = "1F"
          /\ RestViolations(validation, roster_result[r].employee_id,
                            days[i], days[i + 1]) # {}

\* The first n positions of a list of keys, smallest key first and, among
\* equal keys, the earlier position first.
RECURSIVE PickOrder(_, _, _)
PickOrder(keys, taken, n) ==
    IF n = 0 \/ taken = DOMAIN keys
    THEN <<>>
    ELSE LET rest == DOMAIN keys \ taken
             i    == CHOOSE a \in rest :
                        \A b \in rest :
                            keys[a] < keys[b] \/ (keys[a] = keys[b] /\ a <= b)
         IN  <<i>> \o PickOrder(keys, taken \cup {i}, n - 1)

\* The conflicts by severity rank, input order kept among equal ranks.
ClaimedConflictOrder(conflicts) ==
    LET idx == PickOrder([i \in 1..Len(conflicts) |-> SeverityRank(conflicts[i].severity)],
                         {}, Len(conflicts))
    IN  [k \in 1..Len(conflicts) |-> conflicts[idx[k]]]

\* The generated options by impact score, generation order kept among equal
\* scores, five at most.
ClaimedOptionOrder(generated) ==
    LET idx == PickOrder([i \in 1..Len(generated) |-> generated[i].impact_score],
                         {}, IF Len(generated) < 5 THEN Len(generated) ELSE 5)
    IN  [k \in 1..Len(idx) |-> generated[idx[k]]]

\* The first option attempted and nothing else: the conflict is recorded as
\* applied with that option or as unresolved.
ClaimedAttempt(st, conflict, roster, options) ==
    IF Len(options) = 0
    THEN [st EXCEPT !.unresolved = Append(@, conflict)]
    ELSE RecordOutcome(st, conflict, options[1],
                       ApplyResolution(roster, st.heap, options[1]))

\* The conflicts not yet recorded in st, each with options generated against
\* the roster as the earlier ones left it.
RECURSIVE ClaimedRepair(_, _, _, _)
ClaimedRepair(sorted, st, roster, emps) ==
    IF Len(st.resolutions) + Len(st.unresolved) >= Len(sorted)
    THEN st
    ELSE ClaimedRepair(sorted,
             ClaimedAttempt(st, sorted[Len(st.resolutions) + Len(st.unresolved) + 1],
                 roster,
                 ClaimedOptionOrder(ResolutionOptions(
                     sorted[Len(st.resolutions) + Len(st.unresolved) + 1],
                     roster, st.heap, emps))),
             roster, emps)

\* The resolver's result is the one of the claimed procedure.
RepairAsClaimed(claimed) ==
    /\ resolution_summary'.resolutions = claimed.resolutions
    /\ resolution_summary'.unresolved_conflicts = claimed.unresolved
    /\ shifts_heap' = claimed.heap

\* C25: the resolver takes the conflicts by severity rank (critical, high,
\* medium, low) in input order among equals; for each it generates the options
\* against the roster as changed so far, orders them by impact score with ties
\* in generation order, keeps five at most and attempts the first one only.
C25_RepairOrder ==
    [][(pc = "resolve" /\ Len(validation.conflicts) > 0) =>
          RepairAsClaimed(ClaimedRepair(ClaimedConflictOrder(validation.conflicts),
                              [heap |-> shifts_heap, resolutions |-> <<>>,
                               unresolved |-> <<>>],
                              roster_result, employees_data))]_vars

\* A repair that had to reorder the conflicts and applied two resolutions at
\* least, one of them to a max_hours_exceeded conflict.
C25_Witness ==
    /\ pc = "final"
    /\ resolution_summary # None
    /\ resolution_summary.resolutions_applied >= 2
    /\ SortBySeverity(validation.conflicts) # validation.conflicts
    /\ \E k \in 1..Len(resolution_summary.resolutions) :
          resolution_summary.resolutions[k].conflict.type = "max_hours_exceeded"

\* The number of times x occurs in a sequence.
Occurrences(seq, x) == Cardinality({k \in 1..Len(seq) : seq[k] = x})

\* The conflicts of the applied resolutions, in order.
AppliedConflicts(summary) ==
    [k \in 1..Len(summary.resolutions) |-> summary.resolutions[k].conflict]

\* The first option for the conflict against the given roster cannot be
\* applied: there is none, or no roster entry is its target, or it is the
\* manual review of an unhandled kind.
FirstOptionFails(conflict, roster, heap, emps) ==
    \/ conflict.type \in {"peak_understaffed", "labor_law_violation"}
    \/ Len(SuggestResolutions(conflict, roster, heap, emps)) = 0
    \/ ApplyTargets(roster, heap, SuggestResolutions(conflict, roster, heap, emps)[1]) = {}

\* Every conflict is recorded once; one that cannot be applied is unresolved
\* and leaves the roster as it was.
RecordedOnce(conflicts, summary) ==
    /\ summary.resolutions_applied = Len(summary.resolutions)
    /\ summary.unresolved_count = Len(summary.unresolved_conflicts)
    /\ summary.resolutions_applied + summary.unresolved_count = Len(conflicts)
    /\ \A k \in 1..Len(conflicts) :
          /\ Occurrences(conflicts, conflicts[k]) =
                Occurrences(AppliedConflicts(summary), conflicts[k])
                + Occurrences(summary.unresolved_conflicts, conflicts[k])
          /\ conflicts[k].type \in {"peak_understaffed", "labor_law_violation"} =>
                Occurrences(AppliedConflicts(summary), conflicts[k]) = 0
    /\ FirstOptionFails(SortBySeverity(conflicts)[1], roster_result, shifts_heap,
                        employees_data) =>
          /\ Len(summary.unresolved_conflicts) > 0
          /\ summary.unresolved_conflicts[1] = SortBySeverity(conflicts)[1]
          /\ Len(conflicts) = 1 => shifts_heap' = shifts_heap
    /\ summary.resolutions_applied = 0 => shifts_heap' = shifts_heap

\* C26: every conflict given to the resolver is recorded exactly once, as an
\* applied resolution or as unresolved, so that the two counts add up to the
\* number of conflicts; a conflict whose first option cannot be applied (no
\* option, no target in the roster, manual review of an unhandled kind) is
\* unresolved and leaves the roster unchanged, and the conflicts after it are
\* processed all the same.
C26_EveryConflictRecordedOnce ==
    [][(pc = "resolve" /\ Len(validation.conflicts) > 0) =>
          RecordedOnce(validation.conflicts, resolution_summary')]_vars

\* A repair whose first conflict stayed unresolved and whose second one was
\* resolved.
C26_Witness ==
    /\ pc = "final"
    /\ resolution_summary # None
    /\ Len(validation.conflicts) = 2
    /\ resolution_summary.unresolved_count = 1
    /\ resolution_summary.resolutions_applied = 1
    /\ resolution_summary.unresolved_conflicts[1] = SortBySeverity(validation.conflicts)[1]

\* The weekend per-day average is at least factor/100 times the weekday
\* per-day average; the average over no day is 0.
AverageAtLeast(t, factor) ==
    IF t.weekend_count = 0 THEN t.weekday_count = 0 \/ t.weekday = 0
    ELSE IF t.weekday_count = 0 THEN TRUE
    ELSE 100 * t.weekend * t.weekday_count >= factor * t.weekday * t.weekend_count

\* The coverage metrics have just been calculated: for a roster given to
\* _calculate_peak_coverage, or by the scheduler, which sets the solver status
\* with them, before anything else touches the roster.
CoverageCalculated ==
    pc = "peak_coverage_done" \/ (pc = "validate" /\ solver_status # "")

ConflictsOfType(val, type) ==
    SelectSeq(val.conflicts, LAMBDA c : c.type = type)

\* C28: when the solver returns Optimal or Feasible, the validation of the
\* decoded roster with the same days and store lists no
\* rest_period_violation and no peak_understaffed conflict and, if an
\* employee is a manager, no no_manager conflict.
C28_SolverRulesValidated ==
    (pc = "resolve" /\ Solved) =>
        /\ Len(ConflictsOfType(validation, "rest_period_violation")) = 0
        /\ Len(ConflictsOfType(validation, "peak_understaffed")) = 0
        /\ (\E k \in 1..Len(employees_data) : employees_data[k].is_manager) =>
               Len(ConflictsOfType(validation, "no_manager")) = 0

\* A decoded roster of a request with a manager, a weekend day and an
\* employee who could work 2F before an opening shift, validated.
C28_Witness ==
    /\ pc = "resolve"
    /\ Solved
    /\ \E k \in 1..Len(employees_data) : employees_data[k].is_manager
    /\ \E i \in 1..Len(days) : IsWeekend(days[i])
    /\ total_staff(store_data.peak_requirements) > 0
    /\ \E r \in 1..Len(roster_result), i \in 1..Len(days) :
          ShiftCodeGet(shifts_heap[roster_result[r].shifts], days[i]) = "2F"

\* Every rest_period_violation of the final validation was one of the initial
\* validation already: same employee, same pair of days.
NoNewRestViolation ==
    \A k \in 1..Len(final_validation.conflicts) :
        final_validation.conflicts[k].type = "rest_period_violation" =>
            \E j \in 1..Len(validation.conflicts) :
                /\ validation.conflicts[j].type = "rest_period_violation"
                /\ validation.conflicts[j].employee_id =
                      final_validation.conflicts[k].employee_id
                /\ validation.conflicts[j].days = final_validation.conflicts[k].days

\* The final validation lists no more critical or high conflicts than the
\* initial one.
NoMoreHardConflicts ==
    Len(HardConflicts(final_validation)) <= Len(HardConflicts(validation))

\* C29: the repair phase never makes a roster worse: the final validation has
\* at most as many critical or high conflicts as the initial validation, and
\* no rest_period_violation for an employee and pair of days that had none in
\* the initial validation.
C29_RepairNeverWorse ==
    (pc = "complete" /\ resolution_summary # None) =>
        NoMoreHardConflicts /\ NoNewRestViolation

\* C30: the peak_coverage of the response describes the roster of the same
\* response: for every day its lunch_peak and dinner_peak counts are the
\* numbers of entries of the returned roster whose shift code covers that
\* peak, also when the resolver applied resolutions.
C30_PeakCoverageOfReturnedRoster ==
    pc = "done" =>
        \A i \in 1..Len(days) :
            /\ peak_coverage[days[i]].lunch_peak.count =
                  CountShifts(resolved_roster, shifts_heap, days[i], lunch_peak_shifts)
            /\ peak_coverage[days[i]].dinner_peak.count =
                  CountShifts(resolved_roster, shifts_heap, days[i], dinner_peak_shifts)

====
